---- MODULE Spec2Model ----
(***************************************************************************)
(* Recip.ez: the chat screen (AIChatScreen.tsx), the suggestion engine     *)
(* (OpenAIService.ts) and the SQLite stores (DatabaseService.ts).          *)
(*                                                                         *)
(* Text is modelled at character level where the code looks inside it      *)
(* (toLowerCase, includes, the count regex, trim): Chars(s) is the         *)
(* character sequence of the string s.                                     *)
(***************************************************************************)
EXTENDS Integers, Sequences, FiniteSets, TLC

(***************************************************************************)
(* Strings                                                                 *)
(***************************************************************************)

\* The user messages of the model and their characters.
Chars(s) ==
  CASE s = "Give me 2 margarita cocktails" ->
         <<"G","i","v","e"," ","m","e"," ","2"," ","m","a","r","g","a","r","i","t","a",
           " ","c","o","c","k","t","a","i","l","s">>
    [] s = "2 cocktails"  -> <<"2"," ","c","o","c","k","t","a","i","l","s">>
    [] s = "make a drink" -> <<"m","a","k","e"," ","a"," ","d","r","i","n","k">>
    [] s = "hi"           -> <<"h","i">>
    [] s = " hi"          -> <<" ","h","i">>
    [] s = "0 recipes"    -> <<"0"," ","r","e","c","i","p","e","s">>
    [] s = "12 drinks"    -> <<"1","2"," ","d","r","i","n","k","s">>
    [] s = "make some"    -> <<"m","a","k","e"," ","s","o","m","e">>
    [] s = "1 Recipe"     -> <<"1"," ","R","e","c","i","p","e">>
    [] s = "a few"        -> <<"a"," ","f","e","w">>
    [] s = "negroni"      -> <<"n","e","g","r","o","n","i">>
    [] s = "  "           -> <<" "," ">>
    [] s = "Gimlet"       -> <<"G","i","m","l","e","t">>
    [] s = " Gimlet"      -> <<" ","G","i","m","l","e","t">>
    [] s = "60ml Gin"     -> <<"6","0","m","l"," ","G","i","n">>
    [] s = "Shake with ice" -> <<"S","h","a","k","e"," ","w","i","t","h"," ","i","c","e">>
    [] s = "Lime"         -> <<"L","i","m","e">>
    [] s = "Lime "        -> <<"L","i","m","e"," ">>
    [] s = "50"           -> <<"5","0">>
    [] s = "abc"          -> <<"a","b","c">>
    [] s = ""             -> <<>>

\* String.prototype.toLowerCase, per character.
LowerChar(c) ==
  CASE c = "A" -> "a" [] c = "B" -> "b" [] c = "C" -> "c" [] c = "D" -> "d"
    [] c = "E" -> "e" [] c = "F" -> "f" [] c = "G" -> "g" [] c = "H" -> "h"
    [] c = "I" -> "i" [] c = "J" -> "j" [] c = "K" -> "k" [] c = "L" -> "l"
    [] c = "M" -> "m" [] c = "N" -> "n" [] c = "O" -> "o" [] c = "P" -> "p"
    [] c = "Q" -> "q" [] c = "R" -> "r" [] c = "S" -> "s" [] c = "T" -> "t"
    [] c = "U" -> "u" [] c = "V" -> "v" [] c = "W" -> "w" [] c = "X" -> "x"
    [] c = "Y" -> "y" [] c = "Z" -> "z" [] OTHER -> c

toLowerCase(cs) == [i \in 1..Len(cs) |-> LowerChar(cs[i])]

\* String.prototype.includes: k occurs in cs as a contiguous substring.
includes(cs, k) ==
  \E i \in 0..(Len(cs) - Len(k)) : SubSeq(cs, i + 1, i + Len(k)) = k

IsDigit(c) == c \in {"0","1","2","3","4","5","6","7","8","9"}

\* The regex class \s, for the characters the messages use.
IsSpace(c) == c \in {" ", "\t", "\n"}

\* String.prototype.trim() leaves the empty string.
trimIsEmpty(cs) == \A i \in 1..Len(cs) : IsSpace(cs[i])

DigitValue(c) ==
  CASE c = "0" -> 0 [] c = "1" -> 1 [] c = "2" -> 2 [] c = "3" -> 3 [] c = "4" -> 4
    [] c = "5" -> 5 [] c = "6" -> 6 [] c = "7" -> 7 [] c = "8" -> 8 [] c = "9" -> 9

\* parseInt of a string of decimal digits.
RECURSIVE parseInt(_)
parseInt(ds) ==
  IF ds = <<>> THEN 0
  ELSE 10 * parseInt(SubSeq(ds, 1, Len(ds) - 1)) + DigitValue(ds[Len(ds)])

\* The last index of the longest run of digits (or of whitespace) that starts
\* at i (i - 1 when the run is empty): a greedy \d+ or \s*.
RECURSIVE RunEnd(_, _, _)
RunEnd(cs, i, digits) ==
  IF i <= Len(cs) /\ (IF digits THEN IsDigit(cs[i]) ELSE IsSpace(cs[i]))
  THEN RunEnd(cs, i + 1, digits)
  ELSE i - 1

K_recipe     == <<"r","e","c","i","p","e">>
K_cocktail   == <<"c","o","c","k","t","a","i","l">>
K_drink      == <<"d","r","i","n","k">>
K_suggestion == <<"s","u","g","g","e","s","t","i","o","n">>
K_recipes     == <<"r","e","c","i","p","e","s">>
K_suggestions == <<"s","u","g","g","e","s","t","i","o","n","s">>
K_options     == <<"o","p","t","i","o","n","s">>
K_cocktails   == <<"c","o","c","k","t","a","i","l","s">>
K_multiple    == <<"m","u","l","t","i","p","l","e">>
K_few         == <<"f","e","w">>
K_several     == <<"s","e","v","e","r","a","l">>
K_some        == <<"s","o","m","e">>
K_make        == <<"m","a","k","e">>
K_suggest     == <<"s","u","g","g","e","s","t">>

\* The alternation (recipe|cocktail|drink|suggestion) of the count regex.
CountNouns == {K_recipe, K_cocktail, K_drink, K_suggestion}

\* /(\d+)\s*(recipe|cocktail|drink|suggestion)/i matches cs starting at i:
\* a greedy digit run, a greedy whitespace run, then one of the nouns, compared
\* case-insensitively.  Backtracking cannot help: a shorter digit or space run
\* leaves a digit or a space where the noun must start.
MatchAt(cs, i) ==
  /\ i <= Len(cs)
  /\ IsDigit(cs[i])
  /\ LET j == RunEnd(cs, i, TRUE)
         k == RunEnd(cs, j + 1, FALSE)
     IN \E n \in CountNouns :
          /\ k + Len(n) <= Len(cs)
          /\ toLowerCase(SubSeq(cs, k + 1, k + Len(n))) = n

NoMatch == -1

\* userMessage.match(regex): parseInt of group 1 of the leftmost match, or
\* NoMatch when match() returns null.
numberMatch(cs) ==
  LET starts == {i \in 1..Len(cs) : MatchAt(cs, i)}
  IN IF starts = {} THEN NoMatch
     ELSE LET i == CHOOSE x \in starts : \A y \in starts : x <= y
          IN parseInt(SubSeq(cs, i, RunEnd(cs, i, TRUE)))

Min(a, b) == IF a < b THEN a ELSE b
Max(a, b) == IF a > b THEN a ELSE b

(***************************************************************************)
(* Intent classification                                                   *)
(***************************************************************************)

\* OpenAIService.generateCocktailRecipe, lines 54-63.
multipleRecipeKeywords ==
  {K_recipes, K_suggestions, K_options, K_cocktails, K_multiple, K_few, K_several, K_some}

requestsMultiple(userMessage) ==
  \E keyword \in multipleRecipeKeywords :
     includes(toLowerCase(Chars(userMessage)), keyword)

requestedCount(userMessage) ==
  LET m == numberMatch(Chars(userMessage))
  IN IF m # NoMatch THEN m ELSE IF requestsMultiple(userMessage) THEN 3 ELSE 1

\* Math.min(n, 5): the clamp without its lower bound.
ClampCountNoFloor(n) == Min(n, 5)

\* Math.min(Math.max(n, 1), 5)
ClampCount(n) == Min(Max(n, 1), 5)

actualCount(userMessage) == ClampCount(requestedCount(userMessage))

\* Which of the two system prompts generateCocktailRecipe builds (line 65).
promptShape(userMessage) ==
  IF requestsMultiple(userMessage) \/ actualCount(userMessage) > 1
  THEN "array" ELSE "single"

\* AIChatScreen.handleSend, lines 83-98 and 138-142.
multipleKeywords ==
  {K_recipes, K_suggestions, K_options, K_cocktails, K_multiple, K_few, K_several}

screenRequestsMultiple(userMessage) ==
  \E keyword \in multipleKeywords :
     includes(toLowerCase(Chars(userMessage)), keyword)

screenRequestedCount(userMessage) ==
  LET m == numberMatch(Chars(userMessage))
  IN IF m # NoMatch THEN m ELSE IF screenRequestsMultiple(userMessage) THEN 3 ELSE 0

\* if (requestsMultiple || requestedCount > 1)
takesMultiBranch(userMessage) ==
  screenRequestsMultiple(userMessage) \/ screenRequestedCount(userMessage) > 1

\* requestedCount || 3: 0 is falsy.
OrThree(n) == IF n = 0 THEN 3 ELSE n

\* const count = Math.min(requestedCount || 3, 5)
screenCount(userMessage) == Min(OrThree(screenRequestedCount(userMessage)), 5)

asksForRecipe(userMessage) ==
  \E keyword \in {K_recipe, K_make, K_suggest} :
     includes(toLowerCase(Chars(userMessage)), keyword)

\* The engine operation a send of userMessage calls first: "many", "one", or
\* "none" when the single branch finds no recipe keyword.
sendRoute(userMessage) ==
  IF takesMultiBranch(userMessage) THEN "many"
  ELSE IF asksForRecipe(userMessage) THEN "one" ELSE "none"

(***************************************************************************)
(* Recipes                                                                 *)
(***************************************************************************)

validGlasses == {"rocks", "highball", "coupe", "martini", "wine", "shot"}

Recipe(n, g, ing, ins) ==
  [name |-> n, glass |-> g, ingredients |-> ing, instructions |-> ins]

\* getFallbackRecipe's array; the ingredient and instruction texts are
\* abbreviated to their first item.
FallbackLibrary ==
  << Recipe("Classic Negroni",   "rocks",    "30ml Gin",             "1. Add all spirits to a mixing glass with ice"),
     Recipe("Old Fashioned",     "rocks",    "60ml Bourbon Whiskey", "1. Muddle sugar cube with bitters"),
     Recipe("Classic Margarita", "coupe",    "50ml Tequila (Blanco)", "1. Run lime wedge around rim of glass"),
     Recipe("Mojito",            "highball", "50ml White Rum",       "1. Gently muddle mint leaves"),
     Recipe("Whiskey Sour",      "coupe",    "60ml Bourbon Whiskey", "1. If using egg white, dry shake"),
     Recipe("Aviation Cocktail", "coupe",    "60ml Gin",             "1. Add all ingredients to a shaker with ice"),
     Recipe("Moscow Mule",       "highball", "50ml Vodka",           "1. Fill copper mug or highball glass with ice"),
     Recipe("Espresso Martini",  "martini",  "50ml Vodka",           "1. Add all ingredients to a shaker with ice") >>

FallbackSet == {FallbackLibrary[i] : i \in 1..Len(FallbackLibrary)}

\* Math.floor(Math.random() * recipes.length): any index of the array.
RandomIndex == 1..Len(FallbackLibrary)

\* getFallbackRecipe, with the random index drawn as pick.
getFallbackRecipe(pick) == FallbackLibrary[pick]

\* getMultipleFallbackRecipes: the loop runs for i = 0 .. count-1, so not at
\* all when count <= 0; picks are the random indexes it draws.
getMultipleFallbackRecipes(count, picks) ==
  [i \in 1..Max(count, 0) |-> getFallbackRecipe(picks[i])]

\* The random draws a loop of n calls of getFallbackRecipe can make.
Picks(n) == [1..Max(n, 0) -> RandomIndex]

(***************************************************************************)
(* The completion endpoint's answers                                       *)
(*                                                                         *)
(* An answer is [kind, shape, entries, text]:                              *)
(*   kind  "network"  fetch rejects                                        *)
(*         "status"   a non-2xx status (response.ok is false)              *)
(*         "ok"       a 2xx status, and then                               *)
(*   shape "unparsable"  the body has no choices[0].message.content, or    *)
(*                       the content is not JSON (or is JSON null)         *)
(*         "single"      the content parses to an object without a         *)
(*                       recipes array; entries holds that one object      *)
(*         "array"       the content parses to {recipes: [...]}; entries   *)
(*                       holds the array                                   *)
(*         "text"        the content is free text (a narrative answer)     *)
(* An entry is a recipe object, a missing or empty field read as "", or    *)
(* JsonNull for a null array element.                                      *)
(***************************************************************************)

JsonNull == [json |-> "null"]

\* The longest recipes array the endpoint returns in the model.
MaxEntries == 2

EndpointRecipes ==
  { Recipe("Daiquiri", "coupe",   "60ml Rum", "Shake with ice"),
    Recipe("Paloma",   "tumbler", "50ml Tequila", "Build over ice"),
    Recipe("",         "rocks",   "45ml Rye", "Stir with ice") }

SingleObjects ==
  EndpointRecipes \cup
  { Recipe("Gimlet",  "",      "60ml Gin", "Shake with ice"),
    Recipe("Sazerac", "rocks", "",         "Stir with ice"),
    Recipe("Sidecar", "coupe", "50ml Cognac", "") }

ArrayEntries == EndpointRecipes \cup {JsonNull}

RECURSIVE SeqsUpTo(_, _)
SeqsUpTo(S, n) ==
  IF n = 0 THEN {<<>>}
  ELSE LET shorter == SeqsUpTo(S, n - 1)
       IN shorter \cup {Append(q, x) : q \in {p \in shorter : Len(p) = n - 1}, x \in S}

Answer(k, sh, es, t) == [kind |-> k, shape |-> sh, entries |-> es, text |-> t]

NoAnswer     == Answer("none", "none", <<>>, "")
NetworkError == Answer("network", "none", <<>>, "")
Http500      == Answer("status", "none", <<>>, "")
Unparsable   == Answer("ok", "unparsable", <<>>, "")

\* What the endpoint can answer to a recipe-generation request.
RecipeAnswers ==
  {NetworkError, Http500, Unparsable}
    \cup {Answer("ok", "single", <<o>>, "") : o \in SingleObjects}
    \cup {Answer("ok", "array", es, "") : es \in SeqsUpTo(ArrayEntries, MaxEntries)}

\* What the endpoint can answer to a narrative request.
ChatAnswers ==
  {NetworkError, Http500, Unparsable}
    \cup {Answer("ok", "text", <<>>, t) : t \in {"A bright, citrusy classic.", ""}}

(***************************************************************************)
(* Response validation (OpenAIService.ts)                                  *)
(***************************************************************************)

\* What a try block or a method ends with: a returned value or a thrown error.
\* value holds recipes, text a narrative.
Returned(v)     == [threw |-> FALSE, value |-> v, text |-> ""]
ReturnedText(t) == [threw |-> FALSE, value |-> <<>>, text |-> t]
Thrown          == [threw |-> TRUE,  value |-> <<>>, text |-> ""]

\* A check of the name alone.
hasName(recipe) == recipe.name # ""

\* recipe.name && recipe.glass && recipe.ingredients && recipe.instructions
hasAllFields(recipe) ==
  /\ recipe.name # ""
  /\ recipe.glass # ""
  /\ recipe.ingredients # ""
  /\ recipe.instructions # ""

\* The recipe as parsed, its glass not examined.
validateGlassKeeps(recipe) == recipe

\* validGlasses.includes(recipe.glass) ? recipe.glass : 'rocks'
validateGlass(recipe) ==
  [recipe EXCEPT !.glass = IF @ \in validGlasses THEN @ ELSE "rocks"]

\* generateCocktailRecipe's try block from the fetch on (lines 105-173).
generateCocktailRecipeTry(answer) ==
  IF answer.kind # "ok" \/ answer.shape \notin {"single", "array"} THEN Thrown
  ELSE IF answer.entries = <<>> \/ answer.entries[1] = JsonNull THEN Thrown
  ELSE IF ~hasAllFields(answer.entries[1]) THEN Thrown
  ELSE Returned(<<validateGlass(answer.entries[1])>>)

\* The catch of lines 174-177: any error becomes one fallback recipe.
generateCocktailRecipeCatch(tried, pick) ==
  IF tried.threw THEN Returned(<<getFallbackRecipe(pick)>>) ELSE tried

\* generateMultipleRecipes' try block from the fetch on (lines 217-257); the
\* filter callback reads recipe.name, which throws on a null element.
generateMultipleRecipesTry(answer, count, picks) ==
  IF answer.kind # "ok" \/ answer.shape # "array" THEN Thrown
  ELSE IF \E i \in 1..Len(answer.entries) : answer.entries[i] = JsonNull THEN Thrown
  ELSE LET kept == SelectSeq(answer.entries, hasAllFields)
           validatedRecipes == [i \in 1..Len(kept) |-> validateGlass(kept[i])]
       IN IF Len(validatedRecipes) > 0 THEN Returned(validatedRecipes)
          ELSE Returned(getMultipleFallbackRecipes(count, picks))

\* A catch that rethrows.
generateMultipleRecipesRethrows(tried, count, picks) == tried

\* The catch of lines 258-261.
generateMultipleRecipesCatch(tried, count, picks) ==
  IF tried.threw THEN Returned(getMultipleFallbackRecipes(count, picks)) ELSE tried

\* Whether generateMultipleRecipes answers from the fallback library.
manyFallsBack(answer) ==
  \/ generateMultipleRecipesTry(answer, 0, <<>>).threw
  \/ generateMultipleRecipesTry(answer, 0, <<>>).value = <<>>

(***************************************************************************)
(* The narrative fallback (getFallbackChatResponse, lines 405-450)         *)
(***************************************************************************)

K_negroni       == <<"n","e","g","r","o","n","i">>
K_old_fashioned == <<"o","l","d"," ","f","a","s","h","i","o","n","e","d">>
K_margarita     == <<"m","a","r","g","a","r","i","t","a">>
K_martini       == <<"m","a","r","t","i","n","i">>
K_mojito        == <<"m","o","j","i","t","o">>
K_stir          == <<"s","t","i","r">>
K_shake         == <<"s","h","a","k","e">>
K_glass         == <<"g","l","a","s","s">>
K_glassware     == <<"g","l","a","s","s","w","a","r","e">>
K_buy           == <<"b","u","y">>
K_stock         == <<"s","t","o","c","k">>
K_need          == <<"n","e","e","d">>
K_essential     == <<"e","s","s","e","n","t","i","a","l">>

DefaultChatResponse == "I'm here to help with cocktail recipes, mixing techniques, and bar management."

\* A lookup that answers every message with the catch-all text.
getFallbackChatResponseGeneric(message) == DefaultChatResponse

\* The texts are abbreviated to their first sentence.
getFallbackChatResponse(message) ==
  LET lowerMessage == toLowerCase(Chars(message))
      has(k) == includes(lowerMessage, k)
  IN IF has(K_negroni) THEN "The Negroni is a classic Italian aperitivo cocktail."
     ELSE IF has(K_old_fashioned) THEN "The Old Fashioned is the quintessential whiskey cocktail."
     ELSE IF has(K_margarita) THEN "For a perfect Margarita: shake 50ml tequila, 25ml Cointreau, and 25ml fresh lime juice with ice."
     ELSE IF has(K_martini) THEN "The Martini is a sophisticated classic."
     ELSE IF has(K_mojito) THEN "The Mojito is a refreshing Cuban classic."
     ELSE IF has(K_stir) \/ has(K_shake) THEN "Stirring vs Shaking: Stir spirit-forward cocktails."
     ELSE IF has(K_glass) \/ has(K_glassware) THEN "Proper glassware enhances the cocktail experience."
     ELSE IF has(K_recipe) \/ has(K_make) \/ has(K_suggest) \/ has(K_cocktail)
          THEN "I can suggest numerous cocktail recipes!"
     ELSE IF has(K_buy) \/ has(K_stock) \/ has(K_need) \/ has(K_essential)
          THEN "Essential bar basics."
     ELSE DefaultChatResponse

\* getChatResponse's try block from the fetch on (lines 308-329).
getChatResponseTry(answer) ==
  IF answer.kind # "ok" \/ answer.shape # "text" THEN Thrown
  ELSE ReturnedText(answer.text)

\* The catch of lines 330-334.
getChatResponseCatch(tried, message) ==
  IF tried.threw THEN ReturnedText(getFallbackChatResponse(message)) ELSE tried

(***************************************************************************)
(* Prompt construction                                                     *)
(***************************************************************************)

\* `${item.name} (${item.category})`
renderItem(item) == item.name \o " (" \o item.category \o ")"

\* A join with a bare space between the parts.
RECURSIVE joinWithSpace(_)
joinWithSpace(parts) ==
  IF parts = <<>> THEN ""
  ELSE IF Len(parts) = 1 THEN parts[1]
  ELSE parts[1] \o " " \o joinWithSpace(Tail(parts))

\* Array.prototype.join(', ')
RECURSIVE join(_)
join(parts) ==
  IF parts = <<>> THEN ""
  ELSE IF Len(parts) = 1 THEN parts[1]
  ELSE parts[1] \o ", " \o join(Tail(parts))

\* Lines 50-52 and 191-193.
inventoryList(inventory) ==
  IF Len(inventory) > 0
  THEN join([i \in 1..Len(inventory) |-> renderItem(inventory[i])])
  ELSE "No inventory available"

\* chatHistory.slice(-6)
HistoryWindow == 6

\* chatHistory.slice(0, 6): the first entries instead of the last.
sliceFirst(history) ==
  IF Len(history) <= HistoryWindow THEN history
  ELSE SubSeq(history, 1, HistoryWindow)

slice(history) ==
  IF Len(history) <= HistoryWindow THEN history
  ELSE SubSeq(history, Len(history) - HistoryWindow + 1, Len(history))

\* messages.map(msg => ({role: ..., content: msg.message})), lines 100-103.
toChatHistory(msgs) ==
  [i \in 1..Len(msgs) |->
     [role    |-> IF msgs[i].sender = "user" THEN "user" ELSE "assistant",
      content |-> msgs[i].message]]

\* The body of the request each operation posts: which system prompt, the
\* count and the inventory listing written into it, the messages (the system
\* message carries the name of its prompt), and max_tokens.
Request(op, shape, n, listing, given, msgs, maxTokens) ==
  [op |-> op, shape |-> shape, count |-> n, inventoryList |-> listing,
   recipes |-> given, messages |-> msgs, max_tokens |-> maxTokens]

NoRequest == Request("none", "none", 0, "", <<>>, <<>>, 0)

UserTurn(text) == [role |-> "user", content |-> text]

\* { role: 'system', content: systemPrompt }
SystemTurn(prompt) == [role |-> "system", content |-> prompt]

\* generateCocktailRecipe, lines 50-122.
generateCocktailRecipeRequest(userMessage, inventory) ==
  Request("one", promptShape(userMessage), actualCount(userMessage),
          inventoryList(inventory), <<>>,
          <<SystemTurn(promptShape(userMessage)), UserTurn(userMessage)>>,
          IF requestsMultiple(userMessage) THEN 1200 ELSE 600)

\* generateMultipleRecipes, lines 191-234.
generateMultipleRecipesRequest(userMessage, inventory, count) ==
  Request("many", "array", ClampCount(count),
          inventoryList(inventory), <<>>,
          <<SystemTurn("array"), UserTurn(userMessage)>>, 1500)

\* getChatResponse, lines 275-320; recipes are the recipes its prompt embeds.
getChatResponseRequest(recipes, chatHistory, message) ==
  Request("chat", "narrative", 0, "", recipes,
          <<SystemTurn("narrative")>> \o slice(chatHistory) \o <<UserTurn(message)>>, 350)

(***************************************************************************)
(* State                                                                   *)
(***************************************************************************)

VARIABLES
  \* OpenAIServiceClass
  apiKey, isConfigured,
  \* the engine invocation in progress, and the requests in flight
  call, outstanding,
  \* AIChatScreen's React state
  messages, inputText, isLoading, inventory, recipeSuggestions,
  \* the Alert dialogs on screen, the front one first
  alerts,
  \* AIChatScreen's async functions: handleSend, the two mount loads, the
  \* pending handleSaveRecipe calls, the confirmed clear
  send, loadHistory, loadInventory, saves, clear,
  \* the SQLite tables, and chat_history's AUTOINCREMENT sequence
  chat_history, chat_history_seq, recipes, ingredients,
  \* App's activeTab, the React state of RecipeCollectionScreen and of
  \* BarInventoryScreen, and the async handlers of the two that are at an await
  activeTab, recipesScreen, barScreen, formOps

serviceVars == <<apiKey, isConfigured>>
engineVars  == <<call, outstanding>>
screenVars  == <<messages, inputText, isLoading, inventory, recipeSuggestions, alerts,
                 send, loadHistory, loadInventory, saves, clear>>
dbVars      == <<chat_history, chat_history_seq, recipes, ingredients>>
tabVars     == <<activeTab, recipesScreen, barScreen, formOps>>
vars        == <<serviceVars, engineVars, screenVars, dbVars, tabVars>>

(***************************************************************************)
(* The suggestion engine (OpenAIService.ts)                                *)
(*                                                                         *)
(* call.pc: "idle", "awaitHttp" (at the await fetch), "responded" (the     *)
(* answer has arrived, the continuation has not run), "returned".          *)
(* call.via names the return statement that produced the result.           *)
(***************************************************************************)

Call(op, pc, userMessage, count, request, result, via, requests) ==
  [op |-> op, pc |-> pc, userMessage |-> userMessage, count |-> count,
   request |-> request, answer |-> NoAnswer, result |-> result, via |-> via,
   requests |-> requests]

IdleCall == Call("none", "idle", "", 0, NoRequest, Returned(<<>>), "none", 0)

\* OPENAI_API_KEY
PlaceholderKey == "//"

\* The comparison the placeholder check was meant to make.
constructorRejectsPlaceholder == PlaceholderKey # "//" /\ PlaceholderKey # ""

\* The constructor, line 26: OPENAI_API_KEY == '//' && OPENAI_API_KEY.length > 0
constructorIsConfigured == PlaceholderKey = "//" /\ PlaceholderKey # ""

\* generateCocktailRecipe up to its fetch (lines 45-122).
invokeOne(configured, userMessage, inv, pick) ==
  IF ~configured
  THEN Call("one", "returned", userMessage, 0, NoRequest,
            Returned(<<getFallbackRecipe(pick)>>), "unconfigured", 0)
  ELSE Call("one", "awaitHttp", userMessage, 0,
            generateCocktailRecipeRequest(userMessage, inv), Returned(<<>>), "none", 1)

\* generateMultipleRecipes up to its fetch (lines 186-234).
invokeMany(configured, userMessage, inv, count, picks) ==
  IF ~configured
  THEN Call("many", "returned", userMessage, count, NoRequest,
            Returned(getMultipleFallbackRecipes(count, picks)), "unconfigured", 0)
  ELSE Call("many", "awaitHttp", userMessage, count,
            generateMultipleRecipesRequest(userMessage, inv, count), Returned(<<>>), "none", 1)

\* getChatResponse up to its fetch (lines 270-320).
invokeChat(configured, given, chatHistory, message) ==
  IF ~configured
  THEN Call("chat", "returned", message, 0, NoRequest,
            ReturnedText(getFallbackChatResponse(message)), "unconfigured", 0)
  ELSE Call("chat", "awaitHttp", message, 0,
            getChatResponseRequest(given, chatHistory, message), Returned(<<>>), "none", 1)

\* How many random draws the continuation of c makes.
drawsNeeded(c) ==
  IF c.pc # "responded" THEN 0
  ELSE IF c.op = "one" THEN (IF generateCocktailRecipeTry(c.answer).threw THEN 1 ELSE 0)
  ELSE IF c.op = "many" THEN (IF manyFallsBack(c.answer) THEN Max(c.count, 0) ELSE 0)
  ELSE 0

\* A continuation that posts the request again instead of returning.
finishCallRetries(c, picks) ==
  IF c.requests < 2
  THEN [c EXCEPT !.pc = "awaitHttp", !.answer = NoAnswer, !.requests = @ + 1]
  ELSE [c EXCEPT !.pc = "returned", !.answer = NoAnswer]

\* The operation's continuation after its fetch, to its return.
finishCall(c, picks) ==
  LET tried ==
        IF c.op = "one" THEN generateCocktailRecipeTry(c.answer)
        ELSE IF c.op = "many" THEN generateMultipleRecipesTry(c.answer, c.count, picks)
        ELSE getChatResponseTry(c.answer)
      result ==
        IF c.op = "one"
        THEN generateCocktailRecipeCatch(tried, IF picks = <<>> THEN 1 ELSE picks[1])
        ELSE IF c.op = "many" THEN generateMultipleRecipesCatch(tried, c.count, picks)
        ELSE getChatResponseCatch(tried, c.userMessage)
      via ==
        IF tried.threw THEN "catch"
        ELSE IF c.op = "many" /\ manyFallsBack(c.answer) THEN "empty"
        ELSE "answer"
  IN [c EXCEPT !.pc = "returned", !.answer = NoAnswer, !.result = result, !.via = via]

\* A call that has returned has returned its final value; one at "responded"
\* runs its continuation first.
resumeCall(c, picks) == IF c.pc = "responded" THEN finishCall(c, picks) ELSE c

\* setApiKey, lines 30-33.
SetApiKey(key) ==
  /\ call.pc = "idle"
  /\ apiKey' = key
  /\ isConfigured' = (key # "")
  /\ UNCHANGED <<engineVars, screenVars, tabVars, dbVars>>

\* The endpoint answers the request in flight.
HttpAnswer(answer) ==
  /\ call.pc = "awaitHttp"
  /\ call.op \in outstanding
  /\ answer \in (IF call.op = "chat" THEN ChatAnswers ELSE RecipeAnswers)
  /\ call' = [call EXCEPT !.pc = "responded", !.answer = answer]
  /\ outstanding' = outstanding \ {call.op}
  /\ UNCHANGED <<serviceVars, tabVars, screenVars, dbVars>>

\* The requests in flight once the engine has moved to d.
inFlightAfter(d) ==
  IF d.pc = "awaitHttp" THEN outstanding \cup {d.op} ELSE outstanding

\* The random draws an invocation makes before its fetch: none when the
\* service is configured.
drawsBeforeFetch(n) == Picks(IF isConfigured THEN 0 ELSE n)

FirstPick(picks) == IF picks = <<>> THEN 1 ELSE picks[1]

\* What handleSend calls first for userMessage (lines 95-110 and 138-147).
startGeneration(configured, userMessage, inv, picks) ==
  IF sendRoute(userMessage) = "many"
  THEN invokeMany(configured, userMessage, inv, screenCount(userMessage), picks)
  ELSE IF sendRoute(userMessage) = "one"
  THEN invokeOne(configured, userMessage, inv, FirstPick(picks))
  ELSE IdleCall

\* The random draws startGeneration makes when the service is not configured.
routeDraws(userMessage) ==
  IF sendRoute(userMessage) = "many" THEN screenCount(userMessage)
  ELSE IF sendRoute(userMessage) = "one" THEN 1 ELSE 0

(***************************************************************************)
(* The engine on its own: one invocation of one operation, with inputs     *)
(* drawn from the sets below.                                              *)
(***************************************************************************)

\* The largest count passed to generateMultipleRecipes directly.
MaxCountArg == 4

Item(n, c) == [name |-> n, category |-> c]

Inventories ==
  { <<>>,
    <<Item("Gin", "Spirit")>>,
    <<Item("Gin", "Spirit"), Item("Lime", "Garnish")>> }

Messages ==
  { "Give me 2 margarita cocktails", "2 cocktails", "make a drink", "hi", "0 recipes",
    "12 drinks", "make some", "1 Recipe", "a few", "negroni" }

Turn(sender, text) == [sender |-> sender, message |-> text]

WelcomeText == "Welcome to your professional cocktail assistant."

\* The Conversation Store of an earlier session, when it is not empty: seven
\* rows, one more than the narrative request's window.
StoredHistory ==
  <<Turn("user", "hi"), Turn("agent", ""), Turn("user", "make a drink"), Turn("agent", ""),
    Turn("user", "negroni"), Turn("agent", ""), Turn("user", "a few")>>

\* Chat histories of 0, 2 and 7 turns.
Histories ==
  { <<>>,
    <<Turn("user", "hi"), Turn("agent", "")>>,
    StoredHistory }

CallOne(userMessage, inv) ==
  /\ call.pc = "idle"
  /\ \E picks \in drawsBeforeFetch(1) :
       call' = invokeOne(isConfigured, userMessage, inv, FirstPick(picks))
  /\ outstanding' = inFlightAfter(call')
  /\ UNCHANGED <<serviceVars, tabVars, screenVars, dbVars>>

CallMany(userMessage, inv, count) ==
  /\ call.pc = "idle"
  /\ \E picks \in drawsBeforeFetch(count) :
       call' = invokeMany(isConfigured, userMessage, inv, count, picks)
  /\ outstanding' = inFlightAfter(call')
  /\ UNCHANGED <<serviceVars, tabVars, screenVars, dbVars>>

CallChat(given, history, message) ==
  /\ call.pc = "idle"
  /\ call' = invokeChat(isConfigured, given, toChatHistory(history), message)
  /\ outstanding' = inFlightAfter(call')
  /\ UNCHANGED <<serviceVars, tabVars, screenVars, dbVars>>

\* handleSend's choice of operation and count for userMessage, on its own
\* (lines 83-110 and 138-147); send.userMessage holds the message.
RouteMessage(userMessage) ==
  /\ call.pc = "idle"
  /\ sendRoute(userMessage) # "none"
  /\ \E picks \in drawsBeforeFetch(routeDraws(userMessage)) :
       call' = startGeneration(isConfigured, userMessage, <<>>, picks)
  /\ outstanding' = inFlightAfter(call')
  /\ send' = [send EXCEPT !.userMessage = userMessage]
  /\ UNCHANGED <<serviceVars, tabVars, dbVars, messages, inputText, isLoading, inventory,
                 recipeSuggestions, alerts, loadHistory, loadInventory, saves, clear>>

\* A return that switches the service off after a failed request.
CallReturnsDisabling ==
  /\ call.pc = "responded"
  /\ send.pc = "idle"
  /\ \E picks \in Picks(drawsNeeded(call)) : call' = resumeCall(call, picks)
  /\ outstanding' = inFlightAfter(call')
  /\ isConfigured' = (isConfigured /\ call'.via # "catch")
  /\ UNCHANGED <<apiKey, tabVars, screenVars, dbVars>>

\* The invoked operation's continuation runs to its return.
CallReturns ==
  /\ call.pc = "responded"
  /\ send.pc = "idle"
  /\ \E picks \in Picks(drawsNeeded(call)) : call' = resumeCall(call, picks)
  /\ outstanding' = inFlightAfter(call')
  /\ UNCHANGED <<serviceVars, tabVars, screenVars, dbVars>>

(***************************************************************************)
(* The stores (DatabaseService.ts).  A statement takes effect when it is   *)
(* issued (the connection runs statements in the order they are issued);   *)
(* the caller's continuation runs later.  Each statement may also fail,    *)
(* and then changes nothing and rejects.                                   *)
(***************************************************************************)

\* An INSERT that puts the new row first.
addChatMessageFirst(rows, sender, text) == <<Turn(sender, text)>> \o rows

\* addChatMessage: INSERT INTO chat_history (lines 122-128).
addChatMessage(rows, sender, text) == Append(rows, Turn(sender, text))

\* getChatHistory: SELECT ... ORDER BY timestamp ASC; rows carry the time of
\* their insertion, so this is the order of insertion (lines 130-135).
getChatHistory(rows) == rows

\* A DELETE that leaves the oldest row.
clearChatHistoryKeepsOldest(rows) == IF rows = <<>> THEN rows ELSE <<rows[1]>>

\* clearChatHistory: DELETE FROM chat_history (lines 137-139).
clearChatHistory(rows) == <<>>

\* A row with the two text blocks exchanged.
RecipeRowSwapped(recipe, source) ==
  [name |-> recipe.name, ingredients |-> recipe.instructions,
   instructions |-> recipe.ingredients, glass |-> recipe.glass, source |-> source]

\* The object handleSaveRecipe and handleAddRecipe pass to addRecipe, as the row
\* the INSERT writes (AIChatScreen.tsx lines 196-203, DatabaseService lines 94-108).
RecipeRow(recipe, source) ==
  [name |-> recipe.name, ingredients |-> recipe.ingredients,
   instructions |-> recipe.instructions, glass |-> recipe.glass, source |-> source]

\* A table is the sequence of the rows ever inserted, a row's position being
\* its AUTOINCREMENT id; a deleted row leaves Deleted in its place.
Deleted == [deleted |-> TRUE]

\* The ids of the rows a SELECT finds, in ascending order.
RECURSIVE liveIds(_, _)
liveIds(rows, i) ==
  IF i > Len(rows) THEN <<>>
  ELSE (IF rows[i] = Deleted THEN <<>> ELSE <<i>>) \o liveIds(rows, i + 1)

\* SELECT *: the row with its id column.
withId(rows, i) == [id |-> i] @@ rows[i]

reverse(q) == [i \in 1..Len(q) |-> q[Len(q) + 1 - i]]

\* An INSERT that runs twice.
addRecipeTwice(rows, row) == Append(Append(rows, row), row)

\* addRecipe: INSERT INTO recipes (lines 94-108).
addRecipe(rows, row) == Append(rows, row)

\* getAllRecipes: SELECT * FROM recipes ORDER BY dateAdded DESC (lines
\* 110-115).  dateAdded is the day of the save, the same for the rows of one
\* run, and the rows come in the order of the table.
getAllRecipes(rows) ==
  LET ids == liveIds(rows, 1) IN [k \in 1..Len(ids) |-> withId(rows, ids[k])]

\* DELETE FROM <table> WHERE id = ? (lines 89-91 and 117-119): no row when
\* the id is not in the table.
deleteById(rows, id) ==
  IF id \in 1..Len(rows) THEN [rows EXCEPT ![id] = Deleted] ELSE rows

deleteRecipe(rows, id) == deleteById(rows, id)

deleteIngredient(rows, id) == deleteById(rows, id)

\* The row addIngredient's INSERT writes (lines 69-80).
IngredientRow(name, category, quantity) ==
  [name |-> name, category |-> category, quantity |-> quantity]

\* addIngredient: INSERT INTO ingredients (lines 69-80).
addIngredient(rows, row) == Append(rows, row)

\* getAllIngredients: SELECT * FROM ingredients ORDER BY dateAdded DESC (lines
\* 82-87); dateAdded is the time of the INSERT, so the newest row comes first.
getAllIngredients(rows) ==
  LET ids == reverse(liveIds(rows, 1)) IN [k \in 1..Len(ids) |-> withId(rows, ids[k])]

\* RecipeCollectionScreen's GLASS_TYPES (lines 513-520): the values the form's
\* selectedGlass takes.
GLASS_TYPES == {"rocks", "highball", "coupe", "martini", "wine", "shot"}

\* The row handleAddRecipe writes for a complete form (lines 554-561).
manualEntry(name, ingredientsText, instructionsText, selectedGlass) ==
  RecipeRow(Recipe(name, selectedGlass, ingredientsText, instructionsText), "Manual Entry")

(***************************************************************************)
(* The chat screen (AIChatScreen.tsx)                                      *)
(***************************************************************************)

\* No send starts once chat_history's AUTOINCREMENT sequence has reached this.
MaxRows == 1
\* The suggestion cards whose Save button the user presses: the first MaxShown.
MaxShown == 2
\* The most suggestions saved to the Recipe Store.
MaxSaves == 1
\* The most async functions of the screen pending at once.
MaxPending == 2
\* The cards of a list whose Delete button the user presses: the first MaxListed.
MaxListed == 2

\* The largest index of the fallback library that Math.random yields in the
\* runs of the chat screen; the engine on its own draws every index.
MaxDraw == 2

ScreenPicks(n) == [1..Max(n, 0) -> 1..MaxDraw]

\* The endpoint's answers in the runs of the chat screen: a failure, a single
\* object and an array with an invalid glass, an array whose only entry fails
\* validation, and a narrative.
ScreenAnswers ==
  { Http500,
    Answer("ok", "single", <<Recipe("Paloma", "tumbler", "50ml Tequila", "Build over ice")>>, ""),
    Answer("ok", "array", <<Recipe("Paloma", "tumbler", "50ml Tequila", "Build over ice"),
                            Recipe("Daiquiri", "coupe", "60ml Rum", "Shake with ice")>>, ""),
    Answer("ok", "array", <<Recipe("", "rocks", "45ml Rye", "Stir with ice")>>, ""),
    Answer("ok", "text", <<>>, "A bright, citrusy classic.") }

\* The Recipe Store when the chat screen mounts: one recipe entered by hand on
\* the collection screen.
StoredRecipes == <<manualEntry("House Punch", "200ml Rum", "Stir over ice", "wine")>>

\* The Inventory Store when a screen mounts.
StoredIngredients == <<IngredientRow("Gin", "Spirit", 700)>>

\* What the user types into the input box.
InputTexts == {"make a drink", "2 cocktails", " hi", "  "}

\* The strings Chars knows, for reading a character sequence back.
KnownStrings ==
  Messages \cup {"", "  ", " hi", "Gimlet", " Gimlet", "60ml Gin", "Shake with ice",
                 "Lime", "Lime "}

RECURSIVE trimChars(_)
trimChars(cs) ==
  IF cs = <<>> THEN cs
  ELSE IF IsSpace(cs[1]) THEN trimChars(Tail(cs))
  ELSE IF IsSpace(cs[Len(cs)]) THEN trimChars(SubSeq(cs, 1, Len(cs) - 1))
  ELSE cs

\* String.prototype.trim
trim(s) == CHOOSE t \in KnownStrings : Chars(t) = trimChars(Chars(s))

ConfirmClear == "Clear Chat History"

\* The titles of the dialogs that offer Cancel and a destructive button
\* (AIChatScreen line 211, RecipeCollectionScreen line 577, BarInventoryScreen
\* line 1030).
Confirmations == {ConfirmClear, "Delete Recipe", "Delete Ingredient"}

Send(pc, userMessage, msgs, inv, wrote, given, requests) ==
  [pc |-> pc, userMessage |-> userMessage, messages |-> msgs, inventory |-> inv,
   wrote |-> wrote, recipes |-> given, requests |-> requests]

IdleSend == Send("idle", "", <<>>, <<>>, TRUE, <<>>, <<>>)

Load(pc, ok, rows) == [pc |-> pc, ok |-> ok, rows |-> rows]

\* The requests a send has issued, with the one the engine has just started.
requestsWith(d) == IF d.pc = "awaitHttp" THEN Append(send.requests, d.op) ELSE send.requests

\* The user types.
TypeText(text) ==
  /\ activeTab = "chat" /\ alerts = <<>>
  /\ text # inputText
  /\ inputText' = text
  /\ UNCHANGED <<serviceVars, tabVars, engineVars, dbVars, messages, isLoading, inventory,
                 recipeSuggestions, alerts, send, loadHistory, loadInventory, saves, clear>>

\* The screen's async functions that are at an await.
PendingCount ==
  (IF send.pc # "idle" THEN 1 ELSE 0) + Len(saves) + (IF clear.pc = "pending" THEN 1 ELSE 0)
    + Len(loadHistory) + (IF loadInventory.pc = "pending" THEN 1 ELSE 0)

\* A guard that does not look at the loading flag.
sendGuardIgnoresLoading(text, loading) == ~trimIsEmpty(Chars(text))

\* handleSend's guard, line 61.
sendGuard(text, loading) == ~trimIsEmpty(Chars(text)) /\ ~loading

\* handleSend, from the tap (or keyboard submit) to its first await (lines
\* 60-80); the user message's INSERT succeeds or fails.
HandleSend ==
  /\ activeTab = "chat" /\ alerts = <<>>
  /\ IF ~sendGuard(inputText, isLoading) THEN UNCHANGED vars
     ELSE /\ chat_history_seq < MaxRows
          /\ PendingCount < MaxPending
          /\ \E ok \in BOOLEAN :
               /\ chat_history' = IF ok THEN addChatMessage(chat_history, "user", trim(inputText))
                                  ELSE chat_history
               /\ chat_history_seq' = IF ok THEN chat_history_seq + 1 ELSE chat_history_seq
               /\ send' = Send("awaitUserWrite", trim(inputText), messages, inventory, ok,
                               <<>>, <<>>)
          /\ inputText' = ""
          /\ isLoading' = TRUE
          /\ messages' = Append(messages, Turn("user", trim(inputText)))
          /\ UNCHANGED <<serviceVars, tabVars, engineVars, inventory, recipeSuggestions, alerts,
                         loadHistory, loadInventory, saves, clear, recipes, ingredients>>

\* No await: the next statement runs whether or not the call has settled.
awaitedAtOnce(c) == TRUE

\* await OpenAIService.<operation>(...): handleSend goes on once the call's
\* promise has settled (lines 106, 114 and 144).
awaited(c) == c.pc \in {"responded", "returned"}

\* The agent message put in front of the list: [agentMsg, ...prev].
addAgentMessageFirst(responseText, suggestions) ==
  /\ recipeSuggestions' = recipeSuggestions \o suggestions
  /\ messages' = <<Turn("agent", responseText)>> \o messages
  /\ \E ok \in BOOLEAN :
       /\ chat_history' = IF ok THEN addChatMessage(chat_history, "agent", responseText)
                          ELSE chat_history
       /\ chat_history_seq' = IF ok THEN chat_history_seq + 1 ELSE chat_history_seq
       /\ send' = [send EXCEPT !.pc = "awaitAgentWrite", !.wrote = ok]
  /\ call' = IdleCall
  /\ outstanding' = outstanding

\* Lines 171-184: the agent message is appended and its INSERT issued.
addAgentMessage(responseText, suggestions) ==
  /\ recipeSuggestions' = recipeSuggestions \o suggestions
  /\ messages' = Append(messages, Turn("agent", responseText))
  /\ \E ok \in BOOLEAN :
       /\ chat_history' = IF ok THEN addChatMessage(chat_history, "agent", responseText)
                          ELSE chat_history
       /\ chat_history_seq' = IF ok THEN chat_history_seq + 1 ELSE chat_history_seq
       /\ send' = [send EXCEPT !.pc = "awaitAgentWrite", !.wrote = ok]
  /\ call' = IdleCall
  /\ outstanding' = outstanding

\* `Here are ${requestedCount || 3} cocktail suggestions for you:` (line 125);
\* the number does not reach any other state.
multiFallbackText == "Here are N cocktail suggestions for you:"

\* handleSend after the user message's INSERT (lines 76-147): a rejected
\* INSERT ends handleSend there, outside its try; otherwise the message is
\* classified and the first engine operation invoked.
SendAfterUserWrite ==
  /\ send.pc = "awaitUserWrite"
  /\ call.pc = "idle"
  /\ IF ~send.wrote
     THEN /\ send' = IdleSend
          /\ UNCHANGED <<engineVars, messages, recipeSuggestions, chat_history,
                         chat_history_seq>>
     ELSE IF sendRoute(send.userMessage) = "none"
     THEN addAgentMessage("", <<>>)
     ELSE /\ \E picks \in ScreenPicks(IF isConfigured THEN 0 ELSE routeDraws(send.userMessage)) :
               call' = startGeneration(isConfigured, send.userMessage, send.inventory, picks)
          /\ outstanding' = inFlightAfter(call')
          /\ send' = [send EXCEPT !.pc = "awaitGenerate", !.requests = requestsWith(call')]
          /\ UNCHANGED <<messages, recipeSuggestions, chat_history, chat_history_seq>>
  /\ UNCHANGED <<serviceVars, tabVars, inputText, isLoading, inventory, alerts, loadHistory,
                 loadInventory, saves, clear, recipes, ingredients>>

\* handleSend after generateMultipleRecipes or generateCocktailRecipe (lines
\* 106-118 and 144-154): the multiple branch goes on to getChatResponse, the
\* single branch to the agent message.
SendAfterGenerate ==
  /\ send.pc = "awaitGenerate"
  /\ awaited(call)
  /\ \E picks \in ScreenPicks(drawsNeeded(call)) :
       LET c == resumeCall(call, picks)
       IN IF c.op = "many"
          THEN IF c.result.threw
               THEN \E fallback \in ScreenPicks(OrThree(screenRequestedCount(send.userMessage))) :
                      addAgentMessage(multiFallbackText,
                        getMultipleFallbackRecipes(
                          OrThree(screenRequestedCount(send.userMessage)), fallback))
               ELSE /\ call' = invokeChat(isConfigured, c.result.value,
                                          toChatHistory(send.messages), send.userMessage)
                    /\ outstanding' = inFlightAfter(call')
                    /\ send' = [send EXCEPT !.pc = "awaitChat", !.recipes = c.result.value,
                                            !.requests = requestsWith(call')]
                    /\ UNCHANGED <<messages, recipeSuggestions, chat_history,
                                   chat_history_seq>>
          ELSE IF c.result.threw
               THEN \E pick \in 1..MaxDraw : addAgentMessage("", <<getFallbackRecipe(pick)>>)
               ELSE addAgentMessage("", c.result.value)
  /\ UNCHANGED <<serviceVars, tabVars, inputText, isLoading, inventory, alerts, loadHistory,
                 loadInventory, saves, clear, recipes, ingredients>>

\* handleSend after getChatResponse (lines 114-128).
SendAfterChat ==
  /\ send.pc = "awaitChat"
  /\ awaited(call)
  /\ LET c == resumeCall(call, <<>>)
     IN IF c.result.threw
        THEN \E fallback \in ScreenPicks(OrThree(screenRequestedCount(send.userMessage))) :
               addAgentMessage(multiFallbackText,
                 getMultipleFallbackRecipes(
                   OrThree(screenRequestedCount(send.userMessage)), fallback))
        ELSE addAgentMessage(c.result.text, send.recipes)
  /\ UNCHANGED <<serviceVars, tabVars, inputText, isLoading, inventory, alerts, loadHistory,
                 loadInventory, saves, clear, recipes, ingredients>>

\* handleSend after the agent message's INSERT (lines 180-190): the catch
\* shows the notice, the finally clears the loading flag.
SendFinish ==
  /\ send.pc = "awaitAgentWrite"
  /\ alerts' = IF send.wrote THEN alerts ELSE Append(alerts, "Failed to generate response")
  /\ isLoading' = FALSE
  /\ send' = IdleSend
  /\ UNCHANGED <<serviceVars, tabVars, engineVars, dbVars, messages, inputText, inventory,
                 recipeSuggestions, loadHistory, loadInventory, saves, clear>>

\* handleSaveRecipe up to its await (lines 193-203): the INSERT of the i-th
\* suggestion shown succeeds or fails.
HandleSaveRecipe(i) ==
  /\ activeTab = "chat" /\ alerts = <<>>
  /\ i \in 1..Len(recipeSuggestions)
  /\ Len(recipes) < Len(StoredRecipes) + MaxSaves
  /\ PendingCount < MaxPending
  /\ \E ok \in BOOLEAN :
       /\ recipes' = IF ok THEN addRecipe(recipes, RecipeRow(recipeSuggestions[i], "AI Generated"))
                     ELSE recipes
       /\ saves' = Append(saves, ok)
  /\ UNCHANGED <<serviceVars, tabVars, engineVars, messages, inputText, isLoading, inventory,
                 recipeSuggestions, alerts, send, loadHistory, loadInventory, clear,
                 chat_history, chat_history_seq, ingredients>>

\* A notice that reports success whatever addRecipe did.
saveNoticeAlwaysSuccess(ok) == "Success"

\* Alert.alert('Success', ...) after addRecipe, Alert.alert('Error', 'Failed to
\* save recipe') in the catch (lines 204-207).
saveNotice(ok) == IF ok THEN "Success" ELSE "Failed to save recipe"

\* handleSaveRecipe after addRecipe (lines 204-207).
SaveRecipeDone ==
  /\ saves # <<>>
  /\ alerts' = Append(alerts, saveNotice(Head(saves)))
  /\ saves' = Tail(saves)
  /\ UNCHANGED <<serviceVars, tabVars, engineVars, dbVars, messages, inputText, isLoading, inventory,
                 recipeSuggestions, send, loadHistory, loadInventory, clear>>

\* handleClearHistory (lines 210-212): the confirmation dialog opens.
HandleClearHistory ==
  /\ activeTab = "chat" /\ alerts = <<>>
  /\ alerts' = <<ConfirmClear>>
  /\ UNCHANGED <<serviceVars, tabVars, engineVars, dbVars, messages, inputText, isLoading, inventory,
                 recipeSuggestions, send, loadHistory, loadInventory, saves, clear>>

\* The dialog's Cancel button.
CancelClear ==
  /\ alerts # <<>> /\ Head(alerts) = ConfirmClear
  /\ alerts' = Tail(alerts)
  /\ UNCHANGED <<serviceVars, tabVars, engineVars, dbVars, messages, inputText, isLoading, inventory,
                 recipeSuggestions, send, loadHistory, loadInventory, saves, clear>>

\* The dialog's Clear button, to the await of line 218: the DELETE succeeds
\* or fails.
PressClear ==
  /\ alerts # <<>> /\ Head(alerts) = ConfirmClear
  /\ clear.pc = "idle"
  /\ PendingCount < MaxPending
  /\ alerts' = Tail(alerts)
  /\ \E ok \in BOOLEAN :
       /\ chat_history' = IF ok THEN clearChatHistory(chat_history) ELSE chat_history
       /\ clear' = Load("pending", ok, <<>>)
  /\ UNCHANGED <<serviceVars, tabVars, engineVars, messages, inputText, isLoading, inventory,
                 recipeSuggestions, send, loadHistory, loadInventory, saves,
                 chat_history_seq, recipes, ingredients>>

\* loadChatHistory up to its await (lines 31-33): the SELECT succeeds or fails.
startLoadChatHistory(pending, rows) ==
  {Append(pending, Load("pending", TRUE, getChatHistory(rows))),
   Append(pending, Load("pending", FALSE, <<>>))}

\* The Clear button's handler after clearChatHistory (lines 219-224).
ClearDone ==
  /\ clear.pc = "pending"
  /\ clear' = Load("idle", TRUE, <<>>)
  /\ IF clear.ok
     THEN /\ messages' = <<>>
          /\ recipeSuggestions' = <<>>
          /\ loadHistory' \in startLoadChatHistory(loadHistory, chat_history)
          /\ alerts' = alerts
     ELSE /\ alerts' = Append(alerts, "Failed to clear history")
          /\ UNCHANGED <<messages, recipeSuggestions, loadHistory>>
  /\ UNCHANGED <<serviceVars, tabVars, engineVars, dbVars, inputText, isLoading, inventory,
                 send, loadInventory, saves>>

\* loadChatHistory after getChatHistory (lines 34-48).
LoadChatHistoryDone ==
  /\ loadHistory # <<>>
  /\ loadHistory' = Tail(loadHistory)
  /\ messages' = IF ~Head(loadHistory).ok THEN messages
                 ELSE IF Len(Head(loadHistory).rows) = 0 THEN <<Turn("agent", WelcomeText)>>
                 ELSE Head(loadHistory).rows
  /\ UNCHANGED <<serviceVars, tabVars, engineVars, dbVars, inputText, isLoading, inventory,
                 recipeSuggestions, alerts, send, loadInventory, saves, clear>>

\* loadInventory after getAllIngredients (lines 53-57).
LoadInventoryDone ==
  /\ loadInventory.pc = "pending"
  /\ loadInventory' = Load("done", TRUE, <<>>)
  /\ inventory' = IF loadInventory.ok THEN loadInventory.rows ELSE inventory
  /\ UNCHANGED <<serviceVars, tabVars, engineVars, dbVars, messages, inputText, isLoading,
                 recipeSuggestions, alerts, send, loadHistory, saves, clear>>

\* The user dismisses a notice.
DismissAlert ==
  /\ alerts # <<>> /\ Head(alerts) \notin Confirmations
  /\ alerts' = Tail(alerts)
  /\ UNCHANGED <<serviceVars, tabVars, engineVars, dbVars, messages, inputText, isLoading, inventory,
                 recipeSuggestions, send, loadHistory, loadInventory, saves, clear>>


(***************************************************************************)
(* The collection screen and the inventory screen (RecipeCollectionScreen  *)
(* and BarInventoryScreen, lines 500-1298 of AIChatScreen.tsx).  formOps   *)
(* holds their async handlers that are at an await: the statement each     *)
(* issued has taken effect, its continuation has not run.                  *)
(***************************************************************************)

\* BarInventoryScreen's CATEGORIES (line 983).
CATEGORIES == {"Spirit", "Liqueur", "Mixer", "Bitters", "Garnish", "Other"}

\* RecipeCollectionScreen's useState initial values (lines 523-530); deleteId
\* is the id the open Delete dialog was built with.
RecipesScreenInit ==
  [recipes |-> <<>>, showForm |-> FALSE, name |-> "", ingredients |-> "",
   instructions |-> "", selectedGlass |-> "rocks", deleteId |-> 0]

\* BarInventoryScreen's useState initial values (lines 986-989).
BarScreenInit ==
  [ingredients |-> <<>>, name |-> "", category |-> "Spirit", quantity |-> "", deleteId |-> 0]

\* What the user types into the forms.
RecipeNames      == {"", " Gimlet"}
IngredientsTexts == {"  ", "60ml Gin"}
InstructionTexts == {"", "Shake with ice"}
IngredientNames  == {"  ", "Lime "}
QuantityTexts    == {"50", "abc"}
\* The glass and category buttons the user presses.
GlassChoices     == {"rocks", "coupe"}
CategoryChoices  == {"Spirit", "Mixer"}

\* parseFloat(quantity) || 0, for texts without sign, point or exponent: the
\* leading digits, and 0 when there are none (NaN is falsy).
parseFloatOrZero(text) ==
  LET cs == Chars(text) IN parseInt(SubSeq(cs, 1, RunEnd(cs, 1, TRUE)))

FormOp(op, ok, rows) == [op |-> op, ok |-> ok, rows |-> rows]

\* A SELECT issued now: it returns the rows of now, or fails.
startLoad(op, rows) == {FormOp(op, TRUE, rows), FormOp(op, FALSE, <<>>)}

\* The continuation of the oldest pending handler runs, and that handler is
\* op: the connection answers its statements in the order they were issued.
continues(op) == formOps # <<>> /\ Head(formOps).op = op

\* A notice that names no failure.
failureNoticeSaysSuccess(op) == "Success"

\* The Alert.alert('Error', ...) of each handler's catch (lines 541, 571, 587,
\* 1000, 1024 and 1040).
failureNotice(op) ==
  CASE op = "addRecipe"        -> "Failed to add recipe"
    [] op = "deleteRecipe"     -> "Failed to delete recipe"
    [] op = "loadRecipes"      -> "Failed to load recipes"
    [] op = "addIngredient"    -> "Failed to add ingredient"
    [] op = "deleteIngredient" -> "Failed to delete ingredient"
    [] op = "loadIngredients"  -> "Failed to load inventory"

chatScreenVars == <<messages, inputText, isLoading, inventory, recipeSuggestions, send,
                    loadHistory, loadInventory, saves, clear>>

\* The Add New Recipe / Cancel button (line 624).
ToggleForm ==
  /\ activeTab = "recipes" /\ alerts = <<>>
  /\ recipesScreen' = [recipesScreen EXCEPT !.showForm = ~@]
  /\ UNCHANGED <<serviceVars, engineVars, dbVars, chatScreenVars, alerts, activeTab,
                 barScreen, formOps>>

\* The recipe form's onChangeText and glass buttons (lines 641-690).
EditRecipeForm(field, text) ==
  /\ activeTab = "recipes" /\ alerts = <<>>
  /\ recipesScreen.showForm
  /\ recipesScreen[field] # text
  /\ recipesScreen' = [recipesScreen EXCEPT ![field] = text]
  /\ UNCHANGED <<serviceVars, engineVars, dbVars, chatScreenVars, alerts, activeTab,
                 barScreen, formOps>>

\* A check of the name alone.
recipeFormIsBlankNameOnly(form) == trimIsEmpty(Chars(form.name))

\* handleAddRecipe's check of the required fields (line 547).
recipeFormIsBlank(form) ==
  \/ trimIsEmpty(Chars(form.name))
  \/ trimIsEmpty(Chars(form.ingredients))
  \/ trimIsEmpty(Chars(form.instructions))

\* handleAddRecipe to its await (lines 546-561): the INSERT succeeds or fails.
HandleAddRecipe ==
  /\ activeTab = "recipes" /\ alerts = <<>>
  /\ recipesScreen.showForm
  /\ IF recipeFormIsBlank(recipesScreen)
     THEN /\ alerts' = <<"Please complete all required fields">>
          /\ UNCHANGED <<recipes, formOps>>
     ELSE /\ Len(formOps) < MaxPending
          /\ Len(recipes) < Len(StoredRecipes) + MaxSaves
          /\ alerts' = alerts
          /\ \E ok \in BOOLEAN :
               /\ recipes' =
                    IF ok
                    THEN addRecipe(recipes,
                           manualEntry(trim(recipesScreen.name), trim(recipesScreen.ingredients),
                                       trim(recipesScreen.instructions),
                                       recipesScreen.selectedGlass))
                    ELSE recipes
               /\ formOps' = Append(formOps, FormOp("addRecipe", ok, <<>>))
  /\ UNCHANGED <<serviceVars, engineVars, chatScreenVars, chat_history, chat_history_seq,
                 ingredients, activeTab, recipesScreen, barScreen>>

\* handleAddRecipe after addRecipe (lines 563-573): the form is reset and
\* loadRecipes called, or the catch shows its notice.
AddRecipeDone ==
  /\ continues("addRecipe")
  /\ IF Head(formOps).ok
     THEN /\ recipesScreen' = [recipesScreen EXCEPT !.name = "", !.ingredients = "",
                                 !.instructions = "", !.selectedGlass = "rocks",
                                 !.showForm = FALSE]
          /\ \E load \in startLoad("loadRecipes", getAllRecipes(recipes)) :
               formOps' = Append(Tail(formOps), load)
          /\ alerts' = Append(alerts, "Recipe added to collection")
     ELSE /\ alerts' = Append(alerts, failureNotice(Head(formOps).op))
          /\ formOps' = Tail(formOps)
          /\ UNCHANGED recipesScreen
  /\ UNCHANGED <<serviceVars, engineVars, dbVars, chatScreenVars, activeTab, barScreen>>

\* handleDeleteRecipe (lines 576-579): the dialog opens for the i-th card.
HandleDeleteRecipe(i) ==
  /\ activeTab = "recipes" /\ alerts = <<>>
  /\ i \in 1..Len(recipesScreen.recipes)
  /\ alerts' = <<"Delete Recipe">>
  /\ recipesScreen' = [recipesScreen EXCEPT !.deleteId = recipesScreen.recipes[i].id]
  /\ UNCHANGED <<serviceVars, engineVars, dbVars, chatScreenVars, activeTab, barScreen,
                 formOps>>

\* The Delete dialog's Cancel button, on either screen.
CancelDelete ==
  /\ alerts # <<>> /\ Head(alerts) \in {"Delete Recipe", "Delete Ingredient"}
  /\ alerts' = Tail(alerts)
  /\ UNCHANGED <<serviceVars, engineVars, dbVars, chatScreenVars, tabVars>>

\* The dialog's Delete button to its await (lines 582-584).
PressDeleteRecipe ==
  /\ alerts # <<>> /\ Head(alerts) = "Delete Recipe"
  /\ Len(formOps) < MaxPending
  /\ alerts' = Tail(alerts)
  /\ \E ok \in BOOLEAN :
       /\ recipes' = IF ok THEN deleteRecipe(recipes, recipesScreen.deleteId) ELSE recipes
       /\ formOps' = Append(formOps, FormOp("deleteRecipe", ok, <<>>))
  /\ UNCHANGED <<serviceVars, engineVars, chatScreenVars, chat_history, chat_history_seq,
                 ingredients, activeTab, recipesScreen, barScreen>>

\* The Delete button's handler after deleteRecipe (lines 585-588).
DeleteRecipeDone ==
  /\ continues("deleteRecipe")
  /\ IF Head(formOps).ok
     THEN /\ \E load \in startLoad("loadRecipes", getAllRecipes(recipes)) :
               formOps' = Append(Tail(formOps), load)
          /\ alerts' = alerts
     ELSE /\ alerts' = Append(alerts, failureNotice(Head(formOps).op))
          /\ formOps' = Tail(formOps)
  /\ UNCHANGED <<serviceVars, engineVars, dbVars, chatScreenVars, activeTab, recipesScreen,
                 barScreen>>

\* loadRecipes after getAllRecipes (lines 538-543).
LoadRecipesDone ==
  /\ continues("loadRecipes")
  /\ formOps' = Tail(formOps)
  /\ IF Head(formOps).ok
     THEN /\ recipesScreen' = [recipesScreen EXCEPT !.recipes = Head(formOps).rows]
          /\ alerts' = alerts
     ELSE /\ alerts' = Append(alerts, failureNotice(Head(formOps).op))
          /\ UNCHANGED recipesScreen
  /\ UNCHANGED <<serviceVars, engineVars, dbVars, chatScreenVars, activeTab, barScreen>>


\* The ingredient form's onChangeText and category buttons (lines 1048-1095).
EditIngredientForm(field, text) ==
  /\ activeTab = "bar" /\ alerts = <<>>
  /\ barScreen[field] # text
  /\ barScreen' = [barScreen EXCEPT ![field] = text]
  /\ UNCHANGED <<serviceVars, engineVars, dbVars, chatScreenVars, alerts, activeTab,
                 recipesScreen, formOps>>

\* handleAddIngredient to its await (lines 1005-1017): the INSERT succeeds or
\* fails.
HandleAddIngredient ==
  /\ activeTab = "bar" /\ alerts = <<>>
  /\ IF trimIsEmpty(Chars(barScreen.name))
     THEN /\ alerts' = <<"Please enter an ingredient name">>
          /\ UNCHANGED <<ingredients, formOps>>
     ELSE /\ Len(formOps) < MaxPending
          /\ Len(ingredients) < Len(StoredIngredients) + MaxSaves
          /\ alerts' = alerts
          /\ \E ok \in BOOLEAN :
               /\ ingredients' =
                    IF ok
                    THEN addIngredient(ingredients,
                           IngredientRow(trim(barScreen.name), barScreen.category,
                                         parseFloatOrZero(barScreen.quantity)))
                    ELSE ingredients
               /\ formOps' = Append(formOps, FormOp("addIngredient", ok, <<>>))
  /\ UNCHANGED <<serviceVars, engineVars, chatScreenVars, chat_history, chat_history_seq,
                 recipes, activeTab, recipesScreen, barScreen>>

\* handleAddIngredient after addIngredient (lines 1019-1026).
AddIngredientDone ==
  /\ continues("addIngredient")
  /\ IF Head(formOps).ok
     THEN /\ barScreen' = [barScreen EXCEPT !.name = "", !.quantity = ""]
          /\ \E load \in startLoad("loadIngredients", getAllIngredients(ingredients)) :
               formOps' = Append(Tail(formOps), load)
          /\ alerts' = Append(alerts, "Ingredient added to inventory")
     ELSE /\ alerts' = Append(alerts, failureNotice(Head(formOps).op))
          /\ formOps' = Tail(formOps)
          /\ UNCHANGED barScreen
  /\ UNCHANGED <<serviceVars, engineVars, dbVars, chatScreenVars, activeTab, recipesScreen>>

\* handleDeleteIngredient (lines 1029-1032): the dialog opens for the i-th item.
HandleDeleteIngredient(i) ==
  /\ activeTab = "bar" /\ alerts = <<>>
  /\ i \in 1..Len(barScreen.ingredients)
  /\ alerts' = <<"Delete Ingredient">>
  /\ barScreen' = [barScreen EXCEPT !.deleteId = barScreen.ingredients[i].id]
  /\ UNCHANGED <<serviceVars, engineVars, dbVars, chatScreenVars, activeTab, recipesScreen,
                 formOps>>

\* The dialog's Delete button to its await (lines 1035-1037).
PressDeleteIngredient ==
  /\ alerts # <<>> /\ Head(alerts) = "Delete Ingredient"
  /\ Len(formOps) < MaxPending
  /\ alerts' = Tail(alerts)
  /\ \E ok \in BOOLEAN :
       /\ ingredients' = IF ok THEN deleteIngredient(ingredients, barScreen.deleteId)
                         ELSE ingredients
       /\ formOps' = Append(formOps, FormOp("deleteIngredient", ok, <<>>))
  /\ UNCHANGED <<serviceVars, engineVars, chatScreenVars, chat_history, chat_history_seq,
                 recipes, activeTab, recipesScreen, barScreen>>

\* The Delete button's handler after deleteIngredient (lines 1038-1041).
DeleteIngredientDone ==
  /\ continues("deleteIngredient")
  /\ IF Head(formOps).ok
     THEN /\ \E load \in startLoad("loadIngredients", getAllIngredients(ingredients)) :
               formOps' = Append(Tail(formOps), load)
          /\ alerts' = alerts
     ELSE /\ alerts' = Append(alerts, failureNotice(Head(formOps).op))
          /\ formOps' = Tail(formOps)
  /\ UNCHANGED <<serviceVars, engineVars, dbVars, chatScreenVars, activeTab, recipesScreen,
                 barScreen>>

\* loadIngredients after getAllIngredients (lines 997-1002).
LoadIngredientsDone ==
  /\ continues("loadIngredients")
  /\ formOps' = Tail(formOps)
  /\ IF Head(formOps).ok
     THEN /\ barScreen' = [barScreen EXCEPT !.ingredients = Head(formOps).rows]
          /\ alerts' = alerts
     ELSE /\ alerts' = Append(alerts, failureNotice(Head(formOps).op))
          /\ UNCHANGED barScreen
  /\ UNCHANGED <<serviceVars, engineVars, dbVars, chatScreenVars, activeTab, recipesScreen>>

(***************************************************************************)
(* Specifications                                                          *)
(***************************************************************************)

ServiceInit ==
  /\ apiKey = PlaceholderKey
  /\ isConfigured = constructorIsConfigured
  /\ call = IdleCall
  /\ outstanding = {}

\* The useState initial values (lines 19-23).
ScreenInit ==
  /\ messages = <<>>
  /\ inputText = ""
  /\ isLoading = FALSE
  /\ inventory = <<>>
  /\ recipeSuggestions = <<>>
  /\ alerts = <<>>
  /\ send = IdleSend
  /\ saves = <<>>
  /\ clear = Load("idle", TRUE, <<>>)

\* The chat screen has mounted: its effect (lines 26-29) has issued the two
\* SELECTs.
\* The other two screens are not mounted.
TabsInit ==
  /\ recipesScreen = RecipesScreenInit
  /\ barScreen = BarScreenInit
  /\ formOps = <<>>

Init ==
  /\ ServiceInit
  /\ ScreenInit
  /\ activeTab = "chat"
  /\ TabsInit
  /\ chat_history \in {<<>>, StoredHistory}
  /\ chat_history_seq = 0
  /\ recipes = StoredRecipes
  /\ ingredients = StoredIngredients
  /\ loadHistory \in startLoadChatHistory(<<>>, chat_history)
  /\ loadInventory \in {Load("pending", TRUE, getAllIngredients(ingredients)),
                        Load("pending", FALSE, <<>>)}

Next ==
  \/ \E text \in InputTexts : TypeText(text)
  \/ HandleSend
  \/ SendAfterUserWrite
  \/ \E answer \in ScreenAnswers : HttpAnswer(answer)
  \/ SendAfterGenerate
  \/ SendAfterChat
  \/ SendFinish
  \/ \E i \in 1..MaxShown : HandleSaveRecipe(i)
  \/ SaveRecipeDone
  \/ HandleClearHistory
  \/ CancelClear
  \/ PressClear
  \/ ClearDone
  \/ LoadChatHistoryDone
  \/ LoadInventoryDone
  \/ DismissAlert

Spec == Init /\ [][Next]_vars

\* The engine on its own: the service as constructed, no screen.
InitEngine ==
  /\ ServiceInit
  /\ ScreenInit
  /\ activeTab = "bar"
  /\ TabsInit
  /\ chat_history = <<>>
  /\ chat_history_seq = 0
  /\ recipes = <<>>
  /\ ingredients = <<>>
  /\ loadHistory = <<>>
  /\ loadInventory = Load("done", TRUE, <<>>)

NextEngine ==
  \/ \E key \in {"", "sk-test"} : SetApiKey(key)
  \/ \E userMessage \in Messages, inv \in Inventories : CallOne(userMessage, inv)
  \/ \E inv \in Inventories, count \in 0..MaxCountArg : CallMany("2 cocktails", inv, count)
  \/ \E given \in {<<>>, <<FallbackLibrary[1]>>}, history \in Histories,
        message \in {"hi", "negroni", "Give me 2 margarita cocktails"} :
          CallChat(given, history, message)
  \/ \E userMessage \in Messages : RouteMessage(userMessage)
  \/ \E answer \in RecipeAnswers \cup ChatAnswers : HttpAnswer(answer)
  \/ CallReturns

SpecEngine == InitEngine /\ [][NextEngine]_vars

\* The collection screen or the inventory screen has mounted (index.tsx lines
\* 84-86 render the one screen of activeTab) and its effect has issued its
\* SELECT.
InitForms ==
  /\ ServiceInit
  /\ ScreenInit
  /\ loadHistory = <<>>
  /\ loadInventory = Load("done", TRUE, <<>>)
  /\ chat_history = <<>>
  /\ chat_history_seq = 0
  /\ recipes = StoredRecipes
  /\ ingredients = StoredIngredients
  /\ recipesScreen = RecipesScreenInit
  /\ barScreen = BarScreenInit
  /\ \/ /\ activeTab = "recipes"
        /\ \E load \in startLoad("loadRecipes", getAllRecipes(recipes)) : formOps = <<load>>
     \/ /\ activeTab = "bar"
        /\ \E load \in startLoad("loadIngredients", getAllIngredients(ingredients)) :
             formOps = <<load>>

NextForms ==
  \/ ToggleForm
  \/ \E text \in RecipeNames : EditRecipeForm("name", text)
  \/ \E text \in IngredientsTexts : EditRecipeForm("ingredients", text)
  \/ \E text \in InstructionTexts : EditRecipeForm("instructions", text)
  \/ \E glass \in GlassChoices : EditRecipeForm("selectedGlass", glass)
  \/ HandleAddRecipe
  \/ AddRecipeDone
  \/ \E i \in 1..MaxListed : HandleDeleteRecipe(i)
  \/ CancelDelete
  \/ PressDeleteRecipe
  \/ DeleteRecipeDone
  \/ LoadRecipesDone
  \/ \E text \in IngredientNames : EditIngredientForm("name", text)
  \/ \E category \in CategoryChoices : EditIngredientForm("category", category)
  \/ \E text \in QuantityTexts : EditIngredientForm("quantity", text)
  \/ HandleAddIngredient
  \/ AddIngredientDone
  \/ \E i \in 1..MaxListed : HandleDeleteIngredient(i)
  \/ PressDeleteIngredient
  \/ DeleteIngredientDone
  \/ LoadIngredientsDone
  \/ DismissAlert

SpecForms == InitForms /\ [][NextForms]_vars

\* The app with the tab the user has opened: any one of the three screens.
InitApp == Init \/ InitForms

NextApp == Next \/ NextForms

SpecApp == InitApp /\ [][NextApp]_vars

(***************************************************************************)
(* Properties                                                              *)
(***************************************************************************)

\* The outcome of the completion call is a failure for operation op: a network
\* error, a non-2xx status, a body that does not parse, or a parsed answer in
\* which no recipe the operation looks at passes validation.
FailedOutcome(op, answer) ==
  \/ answer.kind # "ok"
  \/ answer.shape = "unparsable"
  \/ /\ op = "one"
     /\ \/ answer.entries = <<>>
        \/ answer.entries[1] = JsonNull
        \/ ~hasAllFields(answer.entries[1])
  \/ /\ op = "many"
     /\ \/ answer.shape # "array"
        \/ \A i \in 1..Len(answer.entries) :
             answer.entries[i] = JsonNull \/ ~hasAllFields(answer.entries[i])

\* C1: on every failing outcome of the completion call generateCocktailRecipe
\* returns exactly one recipe of the fallback library, generateMultipleRecipes
\* called with a count in 1..5 returns exactly count recipes of the fallback
\* library, and no operation throws to its caller.
C1_FallbackOnFailure ==
  [][ (call.pc = "responded" /\ call'.pc = "returned") =>
        /\ ~call'.result.threw
        /\ (call.op = "one" /\ FailedOutcome("one", call.answer)) =>
             /\ Len(call'.result.value) = 1
             /\ call'.result.value[1] \in FallbackSet
        /\ (call.op = "many" /\ call.count \in 1..5 /\ FailedOutcome("many", call.answer)) =>
             /\ Len(call'.result.value) = call.count
             /\ \A i \in 1..call.count : call'.result.value[i] \in FallbackSet ]_vars

C1_Witness ==
  /\ call.pc = "returned" /\ call.op = "many" /\ call.via = "catch"
  /\ call.count = 3
  /\ Len(call.result.value) = 3
  /\ call.result.value[1] # call.result.value[2]

SixGlasses == {"rocks", "highball", "coupe", "martini", "wine", "shot"}

C3_TargetCount ==
  /\ (send.userMessage # "" /\ call.op = "many") => call.count \in 1..5
  /\ call.request.op \in {"one", "many"} => call.request.count \in 1..5

C3_Witness ==
  /\ send.userMessage = "12 drinks"
  /\ call.op = "many" /\ call.count = 5 /\ call.request.count = 5

\* C4: for "Give me 2 margarita cocktails" the count extraction yields 2, the
\* plural flag is true and the engine is asked for exactly 2 recipes.
C4_TwoRequested ==
  send.userMessage = "Give me 2 margarita cocktails" =>
     /\ numberMatch(Chars(send.userMessage)) = 2
     /\ screenRequestsMultiple(send.userMessage)
     /\ call.op = "many"
     /\ call.count = 2

\* C5: an invocation of an engine operation issues at most one HTTP request;
\* once the answer has arrived, failure or not, the operation returns without
\* issuing another.
C5_OneRequest ==
  [][ /\ call'.requests <= 1
      /\ call.pc = "responded" =>
           /\ call'.pc = "returned"
           /\ call'.requests = call.requests
           /\ outstanding' = {} ]_vars

C5_Witness ==
  /\ call.pc = "returned" /\ call.op = "one" /\ call.via = "catch"
  /\ call.requests = 1
  /\ outstanding = {}

C7_SaveRoundTrip ==
  [][ \A i \in 1..MaxShown :
        (HandleSaveRecipe(i) /\ recipes' # recipes) =>
           LET suggestion == recipeSuggestions[i]
               read == getAllRecipes(recipes')
           IN \E k \in 1..Len(read) :
                /\ read[k].id = Len(recipes')
                /\ read[k].name = suggestion.name
                /\ read[k].ingredients = suggestion.ingredients
                /\ read[k].instructions = suggestion.instructions
                /\ read[k].glass = suggestion.glass
                /\ read[k].source = "AI Generated" ]_vars

C7_Witness ==
  \E k \in 1..Len(getAllRecipes(recipes)) :
   LET row == getAllRecipes(recipes)[k] IN
     /\ row.source = "AI Generated"
     /\ row.name = "Daiquiri"
     /\ row.ingredients = "60ml Rum"
     /\ row.instructions = "Shake with ice"

\* C8: a save leaves the suggestion list as it was, whether the Recipe Store's
\* INSERT succeeds or fails, and a failed save shows the failure notice.
C8_SaveKeepsList ==
  [][ /\ (\E i \in 1..MaxShown : HandleSaveRecipe(i)) =>
           recipeSuggestions' = recipeSuggestions
      /\ (saves # <<>> /\ saves' = Tail(saves)) =>
           /\ recipeSuggestions' = recipeSuggestions
           /\ ~Head(saves) => alerts' = Append(alerts, "Failed to save recipe") ]_vars

C8_Witness ==
  /\ saves = <<>>
  /\ alerts # <<>> /\ alerts[Len(alerts)] = "Failed to save recipe"
  /\ Len(recipes) = Len(StoredRecipes)
  /\ recipeSuggestions # <<>>

C10_TwoSequentialRequests ==
  /\ Cardinality(outstanding) <= 1
  /\ send.requests \in {<<>>, <<"one">>, <<"many">>, <<"many", "chat">>}

C10_Witness ==
  /\ send.requests = <<"many", "chat">>
  /\ outstanding = {"chat"}

\* C11: a send that has set the loading flag sets it back to false whatever
\* the outcome of its store writes and network calls: once no send is in
\* progress, the flag is false and input is enabled again.
C11_LoadingCleared == send.pc = "idle" => ~isLoading

\* The in-memory list and the form fields of the two screens.
listsAndForms ==
  <<recipesScreen.recipes, recipesScreen.showForm, recipesScreen.name,
    recipesScreen.ingredients, recipesScreen.instructions, recipesScreen.selectedGlass,
    barScreen.ingredients, barScreen.name, barScreen.category, barScreen.quantity>>

\* C12: when the store write of add-ingredient, delete-ingredient, add-recipe
\* or delete-recipe fails, the failing statement changes no store, the handler
\* shows its failure notice, and neither step changes the screen's in-memory
\* list or form fields.
C12_FailedWriteKeepsScreen ==
  [][ /\ (Len(formOps') = Len(formOps) + 1 /\ ~formOps'[Len(formOps')].ok
           /\ formOps'[Len(formOps')].op
                \in {"addRecipe", "deleteRecipe", "addIngredient", "deleteIngredient"}) =>
           /\ listsAndForms' = listsAndForms
           /\ recipes' = recipes /\ ingredients' = ingredients
      /\ (formOps # <<>> /\ formOps' = Tail(formOps) /\ ~Head(formOps).ok) =>
           /\ listsAndForms' = listsAndForms
           /\ recipes' = recipes /\ ingredients' = ingredients
           /\ Len(alerts') = Len(alerts) + 1
           /\ Head(formOps).op = "addRecipe" => alerts'[Len(alerts')] = "Failed to add recipe"
           /\ Head(formOps).op = "deleteRecipe" =>
                alerts'[Len(alerts')] = "Failed to delete recipe"
           /\ Head(formOps).op = "addIngredient" =>
                alerts'[Len(alerts')] = "Failed to add ingredient"
           /\ Head(formOps).op = "deleteIngredient" =>
                alerts'[Len(alerts')] = "Failed to delete ingredient" ]_vars

\* A failed add-recipe has shown its notice with the form still filled in.
C12_Witness ==
  /\ formOps = <<>>
  /\ alerts # <<>> /\ alerts[Len(alerts)] = "Failed to add recipe"
  /\ recipesScreen.showForm
  /\ recipesScreen.name = " Gimlet" /\ recipesScreen.ingredients = "60ml Gin"
  /\ recipes = StoredRecipes

\* C13: when the Conversation Store write of the user message or of the agent
\* message fails, the send ends with a failure notice shown and with the
\* in-memory message list as it was before the send.
C13_FailedWriteKeepsMessages ==
  [][ (send.pc \in {"awaitUserWrite", "awaitAgentWrite"} /\ ~send.wrote
         /\ send'.pc = "idle") =>
        /\ messages' = send.messages
        /\ Len(alerts') = Len(alerts) + 1 ]_vars

\* C14: add-ingredient with a blank name, add-recipe with a blank name,
\* ingredients or instructions, and send with a blank text issue no store
\* statement and no network request, and change no store and no in-memory list.
C14_BlankFieldBlocks ==
  [][ ( \/ HandleAddIngredient /\ trimIsEmpty(Chars(barScreen.name))
        \/ /\ HandleAddRecipe
           /\ \/ trimIsEmpty(Chars(recipesScreen.name))
              \/ trimIsEmpty(Chars(recipesScreen.ingredients))
              \/ trimIsEmpty(Chars(recipesScreen.instructions))
        \/ HandleSend /\ trimIsEmpty(Chars(inputText)) ) =>
        /\ UNCHANGED <<chat_history, chat_history_seq, recipes, ingredients>>
        /\ UNCHANGED <<call, outstanding>>
        /\ UNCHANGED <<formOps, send, saves, clear, loadHistory, loadInventory>>
        /\ UNCHANGED <<messages, recipeSuggestions, inventory>>
        /\ recipesScreen'.recipes = recipesScreen.recipes
        /\ barScreen'.ingredients = barScreen.ingredients ]_vars

\* The recipe form was submitted with a name and ingredients but no
\* instructions: the notice is up and nothing was stored.
C14_Witness ==
  /\ alerts = <<"Please complete all required fields">>
  /\ recipesScreen.name = " Gimlet" /\ recipesScreen.ingredients = "60ml Gin"
  /\ recipesScreen.instructions = ""
  /\ formOps = <<>>
  /\ recipes = StoredRecipes

\* The listing the prompt must carry for each inventory of the model.
ExpectedListing(inv) ==
  CASE inv = <<>> -> "No inventory available"
    [] inv = <<Item("Gin", "Spirit")>> -> "Gin (Spirit)"
    [] inv = <<Item("Gin", "Spirit"), Item("Lime", "Garnish")>> ->
         "Gin (Spirit), Lime (Garnish)"

\* C15: the ingredient listing in the prompt of generateCocktailRecipe and of
\* generateMultipleRecipes is the no-inventory marker for the empty inventory,
\* and otherwise the items as "name (category)", in order, joined by ", ".
C15_InventoryListing ==
  [][ \A inv \in Inventories :
        /\ \A userMessage \in Messages :
             (isConfigured /\ CallOne(userMessage, inv)) =>
                call'.request.inventoryList = ExpectedListing(inv)
        /\ \A count \in 0..MaxCountArg :
             (isConfigured /\ CallMany("2 cocktails", inv, count)) =>
                call'.request.inventoryList = ExpectedListing(inv) ]_vars

C15_Witness ==
  /\ call.op = "many" /\ call.pc = "awaitHttp"
  /\ call.request.inventoryList = "Gin (Spirit), Lime (Garnish)"

\* C16: every change of the Conversation Store appends exactly one message
\* and leaves the messages before it as they were, or removes all messages.
C16_AppendOrClear ==
  [][ chat_history' # chat_history =>
        \/ /\ Len(chat_history') = Len(chat_history) + 1
           /\ SubSeq(chat_history', 1, Len(chat_history)) = chat_history
        \/ chat_history' = <<>> ]_vars

C16_Witness ==
  /\ Len(chat_history) = 2
  /\ chat_history[1] = Turn("user", "make a drink")
  /\ chat_history[2].sender = "agent"

\* The count the resolution policy gives: the explicit number if the count
\* pattern matches, otherwise 3 if plural, otherwise 1, clamped to 1..5.
PolicyCount(userMessage, plural) ==
  LET n == numberMatch(Chars(userMessage))
      resolved == IF n # NoMatch THEN n ELSE IF plural THEN 3 ELSE 1
  IN IF resolved < 1 THEN 1 ELSE IF resolved > 5 THEN 5 ELSE resolved

\* C17: the count generateCocktailRecipe computes, and the count the chat
\* screen passes to generateMultipleRecipes, are the policy's count for the
\* message (an explicit 0 gives 1, an explicit 9 gives 5).
C17_ResolvedCount ==
  /\ (call.op = "one" /\ call.pc = "awaitHttp") =>
        call.request.count = PolicyCount(call.userMessage, requestsMultiple(call.userMessage))
  /\ (send.userMessage # "" /\ call.op = "many") =>
        call.count = PolicyCount(send.userMessage, screenRequestsMultiple(send.userMessage))

\* The answer carries a recipe for generateCocktailRecipe to consider (the
\* object itself, or the first entry of its recipes array) and the four fields
\* of that recipe are non-empty.
FirstIsComplete(answer) ==
  /\ answer.kind = "ok" /\ answer.shape \in {"single", "array"}
  /\ answer.entries # <<>>
  /\ answer.entries[1] # JsonNull
  /\ answer.entries[1].name # "" /\ answer.entries[1].glass # ""
  /\ answer.entries[1].ingredients # "" /\ answer.entries[1].instructions # ""

Qualifies(entry) ==
  /\ entry # JsonNull
  /\ entry.name # "" /\ entry.glass # ""
  /\ entry.ingredients # "" /\ entry.instructions # ""

\* What the claim has generateMultipleRecipes return for the entries of a
\* parsed recipes array: out is the qualifying entries in their order with
\* only an invalid glass changed, or count library recipes when there are none.
IsValidatedList(entries, count, out) ==
  LET kept == SelectSeq(entries, Qualifies)
  IN IF kept # <<>>
     THEN /\ Len(out) = Len(kept)
          /\ \A i \in 1..Len(kept) :
               /\ out[i].name = kept[i].name
               /\ out[i].ingredients = kept[i].ingredients
               /\ out[i].instructions = kept[i].instructions
               /\ out[i].glass = IF kept[i].glass \in SixGlasses THEN kept[i].glass ELSE "rocks"
     ELSE /\ Len(out) = Max(count, 0)
          /\ \A i \in 1..Len(out) : out[i] \in FallbackSet

\* C19: on a parsed {recipes: [...]} response generateMultipleRecipes returns
\* exactly the entries with all four fields non-empty, in order, with only an
\* invalid glass changed to rocks; when none qualifies it returns count
\* fallback recipes, count being the caller's count.
C19_MultiValidation ==
  [][ ( /\ call.op = "many" /\ call.pc = "responded" /\ call'.pc = "returned"
        /\ call.answer.kind = "ok" /\ call.answer.shape = "array" )
      => IsValidatedList(call.answer.entries, call.count, call'.result.value) ]_vars

\* The same, for arrays without a null entry.
C19_WithoutNullEntries ==
  [][ ( /\ call.op = "many" /\ call.pc = "responded" /\ call'.pc = "returned"
        /\ call.answer.kind = "ok" /\ call.answer.shape = "array"
        /\ \A i \in 1..Len(call.answer.entries) : call.answer.entries[i] # JsonNull )
      => IsValidatedList(call.answer.entries, call.count, call'.result.value) ]_vars

\* This step appends the turn's agent message together with recipe suggestions.
AgentTurnWithSuggestions ==
  /\ Len(messages') = Len(messages) + 1
  /\ messages'[Len(messages')].sender = "agent"
  /\ Len(recipeSuggestions') > Len(recipeSuggestions)

\* The narrative pass was run on the suggestions this step adds: the engine
\* operation the send resumes from is getChatResponse, given those recipes.
NarratedTheAdded ==
  LET added == SubSeq(recipeSuggestions', Len(recipeSuggestions) + 1, Len(recipeSuggestions'))
  IN /\ call.op = "chat"
     /\ call.userMessage = send.userMessage
     /\ call.request = NoRequest \/ call.request.recipes = added

\* C20: whenever a send adds recipe suggestions, on the single-recipe path as
\* on the multi-recipe path, the narrative pass has been invoked on exactly
\* those recipes and the agent message of the turn is its non-empty result or
\* its fallback text.
C20_NarrativeEveryPath ==
  [][ AgentTurnWithSuggestions =>
        LET text == messages'[Len(messages')].message
        IN /\ NarratedTheAdded
           /\ text # "" \/ text = getFallbackChatResponse(send.userMessage) ]_vars

\* On the multi-recipe path the narrative pass runs on the added recipes and
\* its return value, whatever it is, becomes the agent message.
C20_MultiPathNarrated ==
  [][ (AgentTurnWithSuggestions /\ sendRoute(send.userMessage) = "many") =>
        /\ NarratedTheAdded
        /\ messages'[Len(messages')].message = resumeCall(call, <<>>).result.text ]_vars

\* C21: the messages getChatResponse posts are one system message, the last
\* min(6, n) entries of the n-entry history in their order, and one user
\* message with the current text; the history the chat screen passes is the
\* message list as it was before the current user message was appended.
C21_NarrativeMessages ==
  [][ /\ (send.pc = "idle" /\ send'.pc # "idle") =>
            /\ send'.messages = messages
            /\ messages' = Append(messages, Turn("user", send'.userMessage))
      /\ (send.pc # "idle" /\ send'.pc # "idle") =>
            /\ send'.messages = send.messages
            /\ send'.userMessage = send.userMessage
      /\ (call.request.op # "chat" /\ call'.request.op = "chat") =>
            LET prior  == send.messages
                n      == Len(prior)
                k      == IF n < 6 THEN n ELSE 6
                posted == call'.request.messages
            IN /\ Len(posted) = k + 2
               /\ posted[1].role = "system"
               /\ \A i \in 1..k :
                    /\ posted[1 + i].content = prior[n - k + i].message
                    /\ posted[1 + i].role =
                         IF prior[n - k + i].sender = "user" THEN "user" ELSE "assistant"
               /\ posted[k + 2] = [role |-> "user", content |-> send.userMessage] ]_vars

C21_Witness ==
  /\ call.request.op = "chat" /\ call.pc = "awaitHttp"
  /\ Len(send.messages) = 7
  /\ Len(call.request.messages) = 8

\* The lookup table's answer to the messages of the model, read off the table:
\* a cocktail name wins over the word cocktails, and "hi" matches nothing.
TableText(message) ==
  CASE message = "negroni" -> "The Negroni is a classic Italian aperitivo cocktail."
    [] message = "Give me 2 margarita cocktails" ->
         "For a perfect Margarita: shake 50ml tequila, 25ml Cointreau, and 25ml fresh lime juice with ice."
    [] message = "hi" -> "I'm here to help with cocktail recipes, mixing techniques, and bar management."

\* C22: when the narrative request fails (transport error or non-2xx status)
\* or the service is not configured, getChatResponse returns the lookup
\* table's text for the message: non-empty, the same whatever the recipes and
\* the history, and the catch-all text when no keyword matches.
C22_NarrativeFallback ==
  [][ ( /\ call'.op = "chat" /\ call'.pc = "returned" /\ call.pc # "returned"
        /\ \/ call'.via = "unconfigured"
           \/ call.pc = "responded" /\ call.answer.kind \in {"network", "status"} )
      => /\ ~call'.result.threw
         /\ call'.result.text # ""
         /\ call'.result.text = TableText(call'.userMessage) ]_vars

C22_Witness ==
  /\ call.op = "chat" /\ call.pc = "returned" /\ call.via = "catch"
  /\ call.userMessage = "negroni"
  /\ call.request.recipes # <<>> /\ Len(call.request.messages) = 8
  /\ call.result.text = "The Negroni is a classic Italian aperitivo cocktail."

\* C23: the service constructed with the placeholder key '//' is configured;
\* setApiKey(k) leaves it configured exactly when k is non-empty; and while it
\* is not configured each of the three operations returns fallback data at
\* once, without a request.
C23_Configured ==
  [][ /\ apiKey = PlaceholderKey => isConfigured
      /\ apiKey' # apiKey => isConfigured' = (apiKey' # "")
      /\ (call.pc = "idle" /\ call'.pc # "idle" /\ ~isConfigured) =>
            /\ call'.pc = "returned" /\ ~call'.result.threw
            /\ call'.requests = 0 /\ call'.request = NoRequest
            /\ outstanding' = {}
            /\ call'.op = "one" =>
                  Len(call'.result.value) = 1 /\ call'.result.value[1] \in FallbackSet
            /\ call'.op = "many" =>
                  \A i \in 1..Len(call'.result.value) : call'.result.value[i] \in FallbackSet
            /\ call'.op = "chat" => call'.result.text = TableText(call'.userMessage) ]_vars

C23_Witness ==
  /\ apiKey = "" /\ ~isConfigured
  /\ call.op = "many" /\ call.pc = "returned" /\ call.via = "unconfigured"
  /\ Len(call.result.value) = 2

\* The placeholder key makes requests.
C23_PlaceholderRequests ==
  apiKey = PlaceholderKey /\ isConfigured /\ call.pc = "awaitHttp" /\ outstanding # {}

\* C24: no step of an engine operation writes to the Inventory, Recipe or
\* Conversation Store or changes apiKey or isConfigured; those two change only
\* in a setApiKey step, which touches nothing else.
C24_EngineFrame ==
  [][ /\ call' # call =>
            /\ apiKey' = apiKey /\ isConfigured' = isConfigured
            /\ chat_history' = chat_history /\ recipes' = recipes
            /\ ingredients' = ingredients
      /\ (apiKey' # apiKey \/ isConfigured' # isConfigured) =>
            /\ call' = call /\ call.pc = "idle"
            /\ isConfigured' = (apiKey' # "")
            /\ chat_history' = chat_history /\ recipes' = recipes
            /\ ingredients' = ingredients ]_vars

C24_Witness ==
  /\ apiKey = "sk-test" /\ isConfigured
  /\ call.op = "many" /\ call.pc = "returned" /\ call.via = "catch"
  /\ call.result.value # <<>>
  /\ chat_history = <<>> /\ recipes = <<>> /\ ingredients = <<>>

\* C25: the Recipe Store changes only in a user's save step, which appends
\* exactly one row with source "AI Generated"; the steps of a send (every
\* branch, every engine outcome) and of a clear leave it unchanged.
C25_OnlySavesAddRecipes ==
  [][ /\ ( \/ send' # send \/ call' # call \/ outstanding' # outstanding
           \/ messages' # messages \/ recipeSuggestions' # recipeSuggestions
           \/ chat_history' # chat_history \/ clear' # clear ) => recipes' = recipes
      /\ recipes' # recipes =>
            /\ Len(saves') = Len(saves) + 1
            /\ Len(recipes') = Len(recipes) + 1
            /\ SubSeq(recipes', 1, Len(recipes)) = recipes
            /\ recipes'[Len(recipes')].source = "AI Generated"
      /\ (Len(saves') = Len(saves) + 1 /\ saves'[Len(saves')]) =>
            Len(recipes') = Len(recipes) + 1 ]_vars

C25_Witness ==
  /\ Len(recipes) = Len(StoredRecipes) + 1
  /\ recipes[Len(recipes)].source = "AI Generated"
  /\ send.pc = "idle" /\ recipeSuggestions # <<>>
  /\ Len(messages) >= 2 /\ messages[Len(messages)].sender = "agent"

\* q extends p by at most one element at the end.
AppendsAtMostOne(p, q) ==
  /\ Len(p) <= Len(q) /\ Len(q) <= Len(p) + 1
  /\ SubSeq(q, 1, Len(p)) = p

\* C26: every step of a send leaves the message list and the Conversation
\* Store as they were or appends one entry at the end; the user message is
\* appended in the send's first step, the agent message in a later step of
\* the same send, after the user message's INSERT has succeeded, and the agent
\* row follows the turn's user row in the store.
C26_TurnOrder ==
  [][ send' # send =>
        /\ AppendsAtMostOne(messages, messages')
        /\ AppendsAtMostOne(chat_history, chat_history')
        /\ messages' # messages =>
              IF send.pc = "idle"
              THEN messages' = Append(messages, Turn("user", send'.userMessage))
              ELSE /\ messages'[Len(messages')].sender = "agent"
                   /\ send.wrote /\ send'.userMessage = send.userMessage
        /\ chat_history' # chat_history =>
              IF send.pc = "idle"
              THEN chat_history' = Append(chat_history, Turn("user", send'.userMessage))
              ELSE /\ chat_history'[Len(chat_history')].sender = "agent"
                   /\ chat_history # <<>> =>
                        chat_history[Len(chat_history)] = Turn("user", send.userMessage) ]_vars

C26_Witness ==
  /\ send.pc = "idle"
  /\ Len(chat_history) = Len(StoredHistory) + 2
  /\ chat_history[Len(chat_history) - 1].sender = "user"
  /\ chat_history[Len(chat_history)].sender = "agent"
  /\ Len(messages) = Len(StoredHistory) + 2
  /\ messages[Len(messages) - 1].sender = "user"
  /\ messages[Len(messages)].sender = "agent"

\* C27: for every count argument and every outcome of the endpoint the list
\* generateMultipleRecipes returns has at least 1 and at most 5 recipes.
C27_OneToFiveReturned ==
  (call.op = "many" /\ call.pc = "returned") =>
     (Len(call.result.value) >= 1 /\ Len(call.result.value) <= 5)

\* The same for count arguments from 1 to 5.
C27_CountInRange ==
  (call.op = "many" /\ call.pc = "returned" /\ call.count >= 1 /\ call.count <= 5) =>
     (Len(call.result.value) >= 1 /\ Len(call.result.value) <= 5)

\* A confirmed Clear has completed while the send in progress was outstanding:
\* the send's user row was inserted and is no longer in the table, and no
\* Clear is pending.
ClearedDuringSend ==
  /\ send.pc \notin {"idle", "awaitUserWrite", "awaitAgentWrite"}
  /\ send.wrote
  /\ clear.pc = "idle"
  /\ \A i \in 1..Len(chat_history) : chat_history[i] # Turn("user", send.userMessage)

\* C28: once a confirmed Clear has completed, a send that started before it
\* adds nothing: no message, no row of the Conversation Store, no suggestion.
C28_NothingAfterClear ==
  [][ (ClearedDuringSend /\ send' # send) =>
        /\ Len(messages') <= Len(messages)
        /\ Len(chat_history') <= Len(chat_history)
        /\ Len(recipeSuggestions') <= Len(recipeSuggestions) ]_vars

\* C29: a generation request the engine posts for a message the chat screen
\* routes to generateCocktailRecipe has the single-object prompt and target
\* count 1, and the {recipes: [...]} prompt is posted only with a target count
\* greater than 1.
C29_SameClassification ==
  (call.pc = "awaitHttp" /\ call.op \in {"one", "many"}) =>
     /\ (call.op = "one" /\ sendRoute(call.userMessage) = "one") =>
           (call.request.shape = "single" /\ call.request.count = 1)
     /\ call.request.shape = "array" => call.request.count > 1

\* The first half alone, for the messages the screen routes itself.
C29_SinglePathSinglePrompt ==
  (call.pc = "awaitHttp" /\ call.op = "one" /\ send.userMessage = call.userMessage
     /\ sendRoute(call.userMessage) = "one") =>
        (call.request.shape = "single" /\ call.request.count = 1)

\* C30: the inventory a send takes along for the engine is the content of the
\* Inventory Store at the moment of the send.
C30_InventoryAtSend ==
  [][ (send.pc = "idle" /\ send'.pc # "idle") =>
        send'.inventory = getAllIngredients(ingredients) ]_vars

\* The same for sends made once the mount's load has completed successfully.
C30_AfterLoad ==
  [][ (send.pc = "idle" /\ send'.pc # "idle" /\ inventory # <<>>) =>
        send'.inventory = getAllIngredients(ingredients) ]_vars

====
